---- MODULE Spec2Model ----
(***************************************************************************)
(* Record linkage and identity resolution of the passenger pipeline:       *)
(* name canonicalisation (name_utils.py), the duplicate-passenger merge    *)
(* (name_utils.py), the schema normaliser, the date and key cleaning and   *)
(* the passenger-to-flight linker attach_flights (merge_csv.py).           *)
(*                                                                         *)
(* A text value (Python str) is a sequence of Unicode code points:         *)
(*   "A." is <<65, 46>>, "Ж" is <<1046>>.                                  *)
(* Code points used below: 32 space, 44 comma, 46 period, 48..57 digits,   *)
(* 65..90 A-Z, 97..122 a-z, 1040..1071 А-Я, 1072..1103 а-я, 1025 Ё,        *)
(* 1105 ё.                                                                 *)
(***************************************************************************)
EXTENDS Integers, Sequences, FiniteSets, TLC

VARIABLES
    call,               \* the name-utility call in progress: [fn, args, ret]
    ndf,                \* normalize: the table handed in (columns, rows)
    nmapping,           \* normalize: the rename map handed in
    nresult,            \* normalize: the table returned
    npc,                \* normalize: "input" / "returned"
    df,                 \* merge: the passenger table handed to the merge
    merged_rows,        \* merge: the rows collected group by group
    origin,             \* merge: for each output row, the index label it had in df
    best_rows,          \* merge: the index label of best_row, for each scored group
    result,             \* merge: the table returned
    suspicious_records, \* merge: the divergences found by the last run
    log_file,           \* merge: contents of the suspicious log file
    first_run,          \* merge: [input, result, suspicious] of the first run
    runs,               \* merge: number of merge runs done on this table
    passengers,         \* link: the passenger file read by attach_flights
    flights,            \* link: the rows of flights.csv and of the JSON/YAML sources
    attach,             \* link: the locals of attach_flights once it has run
    final,              \* stage 3: the locals of clean_columns once it has run
    stage1,             \* stage 1: the locals of build_passenger_block
    futures,            \* read_excel_dir: for each file, its worker and its result
    all_data            \* read_excel_dir: the worker results collected so far

nameVars == <<call>>
normVars == <<ndf, nmapping, nresult, npc>>
mergeVars == <<df, merged_rows, origin, best_rows, result, suspicious_records,
               log_file, first_run, runs>>
linkVars == <<passengers, flights, attach, final>>
stageVars == <<stage1, futures, all_data>>
vars == <<call, ndf, nmapping, nresult, npc, df, merged_rows, origin, best_rows, result,
          suspicious_records, log_file, first_run, runs, passengers, flights, attach, final,
          stage1, futures, all_data>>

(***************************************************************************)
(* Bounds of the model.                                                    *)
(***************************************************************************)
MaxNameLen == 2      \* longest enumerated name (first argument)
MaxProbeLen == 1     \* longest enumerated name (second argument)
MaxRows == 3         \* most rows of a passenger table
MaxCols == 2         \* most columns of a raw table given to normalize
MaxRawRows == 1      \* most rows of a raw table given to normalize
MaxRuns == 2         \* most consecutive merge runs on one table

(***************************************************************************)
(* Python str primitives on code-point sequences.                          *)
(***************************************************************************)
Max(x, y) == IF x >= y THEN x ELSE y

\* str.upper() of one character (ASCII and Russian Cyrillic letters)
ch_upper(c) ==
    IF c \in 97..122 THEN c - 32
    ELSE IF c \in 1072..1103 THEN c - 32
    ELSE IF c = 1105 THEN 1025
    ELSE c

\* str.lower() of one character
ch_lower(c) ==
    IF c \in 65..90 THEN c + 32
    ELSE IF c \in 1040..1071 THEN c + 32
    ELSE IF c = 1025 THEN 1105
    ELSE c

\* str.islower() of one character
ch_islower(c) == c \in 97..122 \/ c \in 1072..1103 \/ c = 1105

str_upper(s) == [i \in 1..Len(s) |-> ch_upper(s[i])]
str_lower(s) == [i \in 1..Len(s) |-> ch_lower(s[i])]

\* the characters of s that satisfy Keep, in order
Filter(s, Keep(_)) == SelectSeq(s, Keep)

IsWhitespace(c) == c \in {9, 10, 13, 32}

\* str.strip(): leading and trailing whitespace removed
RECURSIVE lstrip(_)
lstrip(s) == IF s # <<>> /\ IsWhitespace(Head(s)) THEN lstrip(Tail(s)) ELSE s
RECURSIVE rstrip(_)
rstrip(s) ==
    IF s # <<>> /\ IsWhitespace(s[Len(s)]) THEN rstrip(SubSeq(s, 1, Len(s) - 1))
    ELSE s
strip(s) == rstrip(lstrip(s))

\* str.startswith
startswith(s, p) == Len(p) <= Len(s) /\ SubSeq(s, 1, Len(p)) = p

\* s < t in Python's string order (code point by code point)
RECURSIVE str_less(_, _)
str_less(s, t) ==
    IF t = <<>> THEN FALSE
    ELSE IF s = <<>> THEN TRUE
    ELSE IF Head(s) # Head(t) THEN Head(s) < Head(t)
    ELSE str_less(Tail(s), Tail(t))

\* sorted(S) for a set of strings
RECURSIVE sorted(_)
sorted(S) ==
    IF S = {} THEN <<>>
    ELSE LET m == CHOOSE x \in S : \A y \in S \ {x} : str_less(x, y)
         IN <<m>> \o sorted(S \ {m})

\* sep.join(parts)
RECURSIVE join(_, _)
join(sep, parts) ==
    IF parts = <<>> THEN <<>>
    ELSE IF Len(parts) = 1 THEN parts[1]
    ELSE parts[1] \o sep \o join(sep, Tail(parts))

(***************************************************************************)
(* name_utils.py: transliteration, canonical form, equivalence, score.     *)
(***************************************************************************)
RUS_TO_LAT ==
    1040 :> <<65>> @@ 1041 :> <<66>> @@ 1042 :> <<86>> @@ 1043 :> <<71>> @@
    1044 :> <<68>> @@ 1045 :> <<69>> @@ 1025 :> <<69>> @@ 1046 :> <<90, 104>> @@
    1047 :> <<90>> @@ 1048 :> <<73>> @@ 1049 :> <<89>> @@ 1050 :> <<75>> @@
    1051 :> <<76>> @@ 1052 :> <<77>> @@ 1053 :> <<78>> @@ 1054 :> <<79>> @@
    1055 :> <<80>> @@ 1056 :> <<82>> @@ 1057 :> <<83>> @@ 1058 :> <<84>> @@
    1059 :> <<85>> @@ 1060 :> <<70>> @@ 1061 :> <<75, 104>> @@
    1062 :> <<84, 115>> @@ 1063 :> <<67, 104>> @@ 1064 :> <<83, 104>> @@
    1065 :> <<83, 104, 99, 104>> @@ 1067 :> <<89>> @@ 1069 :> <<69>> @@
    1070 :> <<89, 117>> @@ 1071 :> <<89, 97>> @@ 1068 :> <<>> @@ 1066 :> <<>>

RECURSIVE rus_to_lat(_)
rus_to_lat(text) ==
    IF text = <<>> THEN <<>>
    ELSE LET ch == Head(text)
             up == ch_upper(ch)
             tr == IF up \in DOMAIN RUS_TO_LAT
                   THEN (IF ch_islower(ch) THEN str_lower(RUS_TO_LAT[up])
                         ELSE RUS_TO_LAT[up])
                   ELSE <<ch>>
         IN tr \o rus_to_lat(Tail(text))

IsAsciiLetter(c) == c \in 65..90 \/ c \in 97..122

\* normalize_name without the final lower()
normalize_name_keepcase(name) == Filter(rus_to_lat(name), IsAsciiLetter)

normalize_name(name) == str_lower(Filter(rus_to_lat(name), IsAsciiLetter))

\* names_are_equivalent testing the prefix in one direction only
names_are_equivalent_oneway(a, b) ==
    LET a_norm == normalize_name(a)
        b_norm == normalize_name(b)
    IN IF a_norm = <<>> \/ b_norm = <<>> THEN FALSE
       ELSE startswith(a_norm, b_norm)

names_are_equivalent(a, b) ==
    LET a_norm == normalize_name(a)
        b_norm == normalize_name(b)
    IN IF a_norm = <<>> \/ b_norm = <<>> THEN FALSE
       ELSE startswith(a_norm, b_norm) \/ startswith(b_norm, a_norm)

\* the character class [A-Za-zА-Яа-я] of name_completeness
IsScoredLetter(c) ==
    c \in 65..90 \/ c \in 97..122 \/ c \in 1040..1071 \/ c \in 1072..1103

IsPeriod(c) == c = 46

name_completeness(name) ==
    LET score == Len(Filter(name, IsScoredLetter)) - Len(Filter(name, IsPeriod))
    IN Max(score, 0)

(***************************************************************************)
(* Inputs of the name utilities.                                           *)
(***************************************************************************)
BoundedText(alphabet, n) == UNION {[1..k -> alphabet] : k \in 0..n}

NameAlphabet == {65, 97, 104, 122, 1046, 1078, 1025, 1105, 1100, 46}  \* A a h z Ж ж Ё ё ь .
ProbeAlphabet == {97, 104, 122, 1046, 46}                              \* a h z Ж .

Zhdanova_cyr == <<1046, 1076, 1072, 1085, 1086, 1074, 1072>>  \* "Жданова"
ZHDANOVA == <<90, 72, 68, 65, 78, 79, 86, 65>>                \* "ZHDANOVA"
zhdanova == <<122, 104, 100, 97, 110, 111, 118, 97>>          \* "zhdanova"
John_Smith == <<74, 111, 104, 110, 32, 83, 109, 105, 116, 104>>  \* "John Smith"
J_S == <<74, 46, 83, 46>>                                     \* "J.S."
Semyon_cyr == <<1057, 1077, 1084, 1105, 1085>>                \* "Семён"

ExampleNames == {Zhdanova_cyr, ZHDANOVA, John_Smith, J_S, Semyon_cyr}

NameInputs == BoundedText(NameAlphabet, MaxNameLen) \cup ExampleNames
ProbeInputs == BoundedText(ProbeAlphabet, MaxProbeLen) \cup ExampleNames

(***************************************************************************)
(* The name utilities called one at a time on enumerated inputs.           *)
(***************************************************************************)
Idle == [fn |-> "idle", args |-> <<>>, ret |-> <<>>]

NormIdle ==
    /\ ndf = [kind |-> "NoneType", columns |-> <<>>, rows |-> <<>>]
    /\ nmapping = [kind |-> "None", map |-> <<>>]
    /\ nresult = [kind |-> "NoneType", columns |-> <<>>, rows |-> <<>>]
    /\ npc = "idle"

MergeIdle ==
    /\ df = [columns |-> <<>>, rows |-> <<>>]
    /\ merged_rows = <<>>
    /\ origin = <<>>
    /\ best_rows = <<>>
    /\ result = [columns |-> <<>>, rows |-> <<>>]
    /\ suspicious_records = <<>>
    /\ log_file = <<>>
    /\ first_run = <<>>
    /\ runs = 0

NotRun == [pc |-> "idle"]

LinkIdle ==
    /\ passengers = [columns |-> {}, rows |-> <<>>]
    /\ flights = <<>>
    /\ attach = NotRun
    /\ final = NotRun

StageIdle ==
    /\ stage1 = NotRun
    /\ futures = <<>>
    /\ all_data = <<>>

InitNames == call = Idle /\ NormIdle /\ MergeIdle /\ LinkIdle /\ StageIdle

CallNormalizeName ==
    /\ call = Idle
    /\ \E name \in NameInputs :
         call' = [fn |-> "normalize_name", args |-> <<name>>,
                  ret |-> normalize_name(name)]
    /\ UNCHANGED <<normVars, mergeVars, linkVars, stageVars>>

CallNameCompleteness ==
    /\ call = Idle
    /\ \E name \in NameInputs :
         call' = [fn |-> "name_completeness", args |-> <<name>>,
                  ret |-> name_completeness(name)]
    /\ UNCHANGED <<normVars, mergeVars, linkVars, stageVars>>

CallNamesAreEquivalent ==
    /\ call = Idle
    /\ \E x \in NameInputs, y \in ProbeInputs :
         \E a \in {x, y}, b \in {x, y} :
            call' = [fn |-> "names_are_equivalent", args |-> <<a, b>>,
                     ret |-> names_are_equivalent(a, b)]
    /\ UNCHANGED <<normVars, mergeVars, linkVars, stageVars>>

Return ==
    /\ call # Idle
    /\ call' = Idle
    /\ UNCHANGED <<normVars, mergeVars, linkVars, stageVars>>

NextNames ==
    \/ CallNormalizeName
    \/ CallNameCompleteness
    \/ CallNamesAreEquivalent
    \/ Return

SpecNames == InitNames /\ [][NextNames]_vars

(***************************************************************************)
(* Claims about the name utilities.                                        *)
(***************************************************************************)
\* p is a prefix of s: s continues p by some (possibly empty) text
IsPrefixOf(p, s) ==
    /\ Len(p) <= Len(s)
    /\ \A i \in 1..Len(p) : p[i] = s[i]

\* C8: names_are_equivalent(a, b) is true exactly when both canonical forms
\* are non-empty and one is a prefix of the other; it is symmetric, and
\* equivalent(n, n) is true exactly when n's canonical form is non-empty.
C8_Equivalence ==
    call.fn = "names_are_equivalent" =>
        LET a == call.args[1]
            b == call.args[2]
            ca == normalize_name(a)
            cb == normalize_name(b)
        IN /\ call.ret <=> (/\ ca # <<>>
                            /\ cb # <<>>
                            /\ (IsPrefixOf(ca, cb) \/ IsPrefixOf(cb, ca)))
           /\ call.ret = names_are_equivalent(b, a)
           /\ (a = b => (call.ret <=> ca # <<>>))

\* C8 witness: a true equivalence by proper prefix across scripts ("Ж" vs "z"),
\* asked in the order (longer, shorter)
C8_Witness ==
    /\ call.fn = "names_are_equivalent"
    /\ call.args = <<<<1046>>, <<122>>>>
    /\ call.ret = TRUE

\* C9: normalize_name yields lowercase ASCII letters only, independent of the
\* letter case of the input; a Cyrillic spelling and its transliteration
\* under RUS_TO_LAT get the same key; "Жданова" gives "zhdanova" and is
\* equivalent to "ZHDANOVA"; normalize_name of its own output is unchanged.
C9_Canonicalization ==
    /\ call.fn = "normalize_name" =>
        LET name == call.args[1]
        IN /\ \A i \in 1..Len(call.ret) : call.ret[i] \in 97..122
           /\ normalize_name(str_upper(name)) = call.ret
           /\ normalize_name(str_lower(name)) = call.ret
           /\ normalize_name(rus_to_lat(name)) = call.ret
           /\ normalize_name(call.ret) = call.ret
           /\ (name = Zhdanova_cyr => call.ret = zhdanova)
    /\ (call.fn = "names_are_equivalent" /\ call.args = <<Zhdanova_cyr, ZHDANOVA>>)
          => call.ret = TRUE

\* C9 witness: "Жданова" was canonicalized to "zhdanova"
C9_Witness ==
    /\ call.fn = "normalize_name"
    /\ call.args = <<Zhdanova_cyr>>
    /\ call.ret = zhdanova

\* a Latin or Cyrillic letter, Ё and ё included
IsLatinOrCyrillicLetter(c) ==
    \/ c \in 65..90 \/ c \in 97..122
    \/ c \in 1040..1103 \/ c = 1025 \/ c = 1105

\* C10: name_completeness(name) = max(0, L - P), L the number of Latin or
\* Cyrillic letters (Ё/ё included), P the number of periods; so "John Smith"
\* scores strictly higher than "J.S.".
C10_Completeness ==
    /\ call.fn = "name_completeness" =>
        LET name == call.args[1]
            L == Cardinality({i \in 1..Len(name) : IsLatinOrCyrillicLetter(name[i])})
            P == Cardinality({i \in 1..Len(name) : name[i] = 46})
        IN call.ret = Max(0, L - P)
    /\ name_completeness(John_Smith) > name_completeness(J_S)

(***************************************************************************)
(* name_utils.py: merge_duplicate_passengers.                              *)
(* A table (DataFrame) is [columns, rows]: the column names in order and   *)
(* the rows as records; the index label of a row is its position (the      *)
(* caller concatenates with ignore_index=True).  Of the columns that do    *)
(* not take part in the name logic, FlightNumber is carried; the log's     *)
(* Dates, Cities and Airlines are built from their columns by the same     *)
(* expression as Flights.                                                  *)
(***************************************************************************)
Range(s) == {s[i] : i \in 1..Len(s)}

CommaSpace == <<44, 32>>   \* ", "

\* for doc, group in df.groupby("TravelDoc", dropna=False): the keys in
\* sorted order
GroupKeys(t) == sorted({t.rows[i].TravelDoc : i \in 1..Len(t.rows)})

\* the index labels of one group, in index order
GroupLabels(t, doc) ==
    LET InGroup(i) == t.rows[i].TravelDoc = doc
    IN SelectSeq([i \in 1..Len(t.rows) |-> i], InGroup)

completeness_of(r) ==
    name_completeness(r.FirstName) + name_completeness(r.LastName)
        + name_completeness(r.SecondName)

\* group.assign(completeness=...): the row with its score in a helper column
with_completeness(r) == [completeness |-> completeness_of(r)] @@ r

\* an idxmax that returns the last position that holds the maximum
idxmax_last(group) ==
    CHOOSE k \in 1..Len(group) :
        /\ \A j \in 1..Len(group) : group[j].completeness <= group[k].completeness
        /\ \A j \in (k + 1)..Len(group) : group[j].completeness < group[k].completeness

\* Series.idxmax(): the first position that holds the maximum
idxmax(group) ==
    CHOOSE k \in 1..Len(group) :
        /\ \A j \in 1..Len(group) : group[j].completeness <= group[k].completeness
        /\ \A j \in 1..(k - 1) : group[j].completeness < group[k].completeness

\* diff_names that passes over names without letters
diff_names_skip_empty(names, ref) ==
    {n \in names : normalize_name(n) # <<>> /\ ~names_are_equivalent(n, ref)}

\* def diff_names(names, ref)
diff_names(names, ref) == {n \in names : ~names_are_equivalent(n, ref)}

\* set(group[col].astype(str).str.strip().unique())
unique_stripped(group, col) == {strip(group[k][col]) : k \in 1..Len(group)}

\* ", ".join(sorted(set(group[col].astype(str).str.strip().unique())))
joined_sorted(group, col) == join(CommaSpace, sorted(unique_stripped(group, col)))

\* has_divergence that looks at the first names only
has_divergence_firsts_only(group, best_row) ==
    diff_names(unique_stripped(group, "FirstName"), best_row.FirstName) # {}

\* if distinct_firsts or distinct_lasts
has_divergence(group, best_row) ==
    \/ diff_names(unique_stripped(group, "FirstName"), best_row.FirstName) # {}
    \/ diff_names(unique_stripped(group, "LastName"), best_row.LastName) # {}

\* the entry appended to suspicious_records
suspicious_record(doc_str, group) ==
    [TravelDoc |-> doc_str,
     FirstNames |-> joined_sorted(group, "FirstName"),
     LastNames |-> joined_sorted(group, "LastName"),
     Count |-> Len(group),
     Flights |-> joined_sorted(group, "FlightNumber")]

\* unifies that tests the first name only
unifies_first_only(r, best_row) ==
    names_are_equivalent(r.FirstName, best_row.FirstName)

\* the condition of the unification loop for one row
unifies(r, best_row) ==
    /\ names_are_equivalent(r.FirstName, best_row.FirstName)
    /\ names_are_equivalent(r.LastName, best_row.LastName)

\* unify_row that leaves SecondName alone
unify_row_keep_second(r, best_row) ==
    IF names_are_equivalent(r.FirstName, best_row.FirstName)
       /\ names_are_equivalent(r.LastName, best_row.LastName)
    THEN [r EXCEPT !.FirstName = best_row.FirstName,
                   !.LastName = best_row.LastName]
    ELSE r

\* unify_row that fills SecondName only where the record had none
unify_row_fill_second(r, best_row) ==
    IF names_are_equivalent(r.FirstName, best_row.FirstName)
       /\ names_are_equivalent(r.LastName, best_row.LastName)
    THEN [r EXCEPT !.FirstName = best_row.FirstName,
                   !.LastName = best_row.LastName,
                   !.SecondName = IF @ = <<>> THEN best_row.SecondName ELSE @]
    ELSE r

\* the unification loop's effect on one row
unify_row(r, best_row) ==
    IF unifies(r, best_row)
    THEN [r EXCEPT !.FirstName = best_row.FirstName,
                   !.LastName = best_row.LastName,
                   !.SecondName = best_row.SecondName]
    ELSE r

\* a group that is scored: divergence check, then unification against best_row
unify_group(doc_str, group, best_row, labels) ==
    [rows |-> [k \in 1..Len(group) |-> unify_row(group[k], best_row)],
     labels |-> labels,
     suspicious |-> IF has_divergence(group, best_row)
                    THEN <<suspicious_record(doc_str, group)>> ELSE <<>>,
     merged_docs |-> 1,
     replaced |-> Cardinality({k \in 1..Len(group) : unifies(group[k], best_row)})]

\* best_row = group.loc[group["completeness"].idxmax()]
score_group(doc_str, group, labels) ==
    [best |-> <<labels[idxmax(group)]>>]
        @@ unify_group(doc_str, group, group[idxmax(group)], labels)

\* merge_labels that lets a single-record group through to the scoring
merge_labels_scoring_singles(t, doc, labels) ==
    IF strip(doc) = <<>>
    THEN [rows |-> [k \in 1..Len(labels) |-> t.rows[labels[k]]],
          labels |-> labels, best |-> <<>>, suspicious |-> <<>>,
          merged_docs |-> 0, replaced |-> 0]
    ELSE score_group(strip(doc),
                     [k \in 1..Len(labels) |-> with_completeness(t.rows[labels[k]])],
                     labels)

\* the body of the loop "for doc, group in df.groupby(...)" for the group
\* with the index labels `labels`
merge_labels(t, doc, labels) ==
    IF strip(doc) = <<>> \/ Len(labels) = 1
    THEN [rows |-> [k \in 1..Len(labels) |-> t.rows[labels[k]]],
          labels |-> labels, best |-> <<>>, suspicious |-> <<>>,
          merged_docs |-> 0, replaced |-> 0]
    ELSE score_group(strip(doc),
                     [k \in 1..Len(labels) |-> with_completeness(t.rows[labels[k]])],
                     labels)

merge_group(t, doc) == merge_labels(t, doc, GroupLabels(t, doc))

\* what two consecutive parts of the loop leave behind
after_both(g, rest) ==
    [rows |-> g.rows \o rest.rows,
     labels |-> g.labels \o rest.labels,
     best |-> g.best \o rest.best,
     suspicious |-> g.suspicious \o rest.suspicious,
     merged_docs |-> g.merged_docs + rest.merged_docs,
     replaced |-> g.replaced + rest.replaced]

\* the loop over the groups, in groupby order
RECURSIVE merge_groups(_, _)
merge_groups(t, keys) ==
    IF keys = <<>>
    THEN [rows |-> <<>>, labels |-> <<>>, best |-> <<>>, suspicious |-> <<>>,
          merged_docs |-> 0, replaced |-> 0]
    ELSE after_both(merge_group(t, Head(keys)), merge_groups(t, Tail(keys)))

\* drop_completeness that forgets to drop
keep_completeness(r) == r

\* a row without the helper column (drop(columns=["completeness"], errors="ignore"))
drop_completeness(r) == [c \in DOMAIN r \ {"completeness"} |-> r[c]]

\* pd.DataFrame(merged_rows).drop(columns=["completeness"], errors="ignore"):
\* the columns are the keys of the row dicts in order of first appearance
frame_of(merged, key_order) ==
    LET Appears(c) == \E k \in 1..Len(merged) : c \in DOMAIN merged[k]
        NotHelper(c) == c # "completeness"
    IN [columns |-> SelectSeq(SelectSeq(key_order \o <<"completeness">>, Appears),
                              NotHelper),
        rows |-> [k \in 1..Len(merged) |-> drop_completeness(merged[k])]]

\* what merge_duplicate_passengers holds when the loop is over
merge_outcome(t, m) ==
    [merged_rows |-> m.rows, origin |-> m.labels, best_rows |-> m.best,
     result |-> frame_of(m.rows, t.columns),
     suspicious_records |-> m.suspicious,
     merged_docs |-> m.merged_docs,
     replaced_equivalents |-> m.replaced]

\* merge_duplicate_passengers(df, suspicious_log_path): what it returns and
\* what it holds when it returns
merge_duplicate_passengers(t) ==
    IF "TravelDoc" \notin Range(t.columns)
    THEN [merged_rows |-> <<>>, origin |-> [i \in 1..Len(t.rows) |-> i],
          best_rows |-> <<>>,
          result |-> t, suspicious_records |-> <<>>,
          merged_docs |-> 0, replaced_equivalents |-> 0]
    ELSE merge_outcome(t, merge_groups(t, GroupKeys(t)))

(***************************************************************************)
(* Inputs of the merge: passenger tables of at most MaxRows rows.          *)
(***************************************************************************)
Empty == <<>>                                                  \* ""
Blank == <<32>>                                                \* " "
P1 == <<80, 49>>                                               \* "P1"
P2 == <<80, 50>>                                               \* "P2"
A_dot == <<65, 46>>                                            \* "A."
A_ == <<65>>                                                   \* "A"
Aleksandr == <<65, 108, 101, 107, 115, 97, 110, 100, 114>>     \* "Aleksandr"
Aleksandr_cyr == <<1040, 1083, 1077, 1082, 1089, 1072, 1085, 1076, 1088>>  \* "Александр"
Anna == <<65, 110, 110, 97>>                                   \* "Anna"
Ivanov == <<73, 118, 97, 110, 111, 118>>                       \* "Ivanov"
Ivanov_cyr == <<1048, 1074, 1072, 1085, 1086, 1074>>           \* "Иванов"
Petrov == <<80, 101, 116, 114, 111, 118>>                      \* "Petrov"
Ivanovich == <<73, 118, 97, 110, 111, 118, 105, 99, 104>>      \* "Ivanovich"
I_dot == <<73, 46>>                                            \* "I."
SU1 == <<83, 85, 49>>                                          \* "SU1"
SU2 == <<83, 85, 50>>                                          \* "SU2"

PassengerColumns ==
    <<"FirstName", "SecondName", "LastName", "TravelDoc", "FlightNumber">>

Passenger(doc, first, second, last, flight) ==
    [FirstName |-> first, SecondName |-> second, LastName |-> last,
     TravelDoc |-> doc, FlightNumber |-> flight]

\* the rows a table may hold
RowChoices ==
    { Passenger(P1, A_dot, I_dot, Ivanov, SU2),
      Passenger(P1, Aleksandr, Empty, Ivanov, SU2),
      Passenger(P1, Anna, Empty, Ivanov, SU1),
      Passenger(P1, Anna, Empty, Empty, SU2),
      Passenger(P1, A_, Ivanovich, Ivanov, SU1),
      Passenger(P1, Aleksandr_cyr, Empty, Ivanov_cyr, SU1),
      Passenger(P2, Aleksandr, Empty, Ivanov, SU1),
      Passenger(P2, Aleksandr, Empty, Petrov, SU2),
      Passenger(Empty, A_dot, Empty, Ivanov, SU1),
      Passenger(Blank, Aleksandr, Empty, Ivanov, SU1) }

\* a table whose TravelDoc column is missing
without_TravelDoc(t) ==
    LET NotDoc(c) == c # "TravelDoc"
    IN [columns |-> SelectSeq(t.columns, NotDoc),
        rows |-> [k \in 1..Len(t.rows) |->
                    [c \in DOMAIN t.rows[k] \ {"TravelDoc"} |-> t.rows[k][c]]]]

(***************************************************************************)
(* Stage 1: the passenger block is put together row by row, merged, and    *)
(* the merge may be applied again to its own output.                       *)
(***************************************************************************)
NoTable == [columns |-> <<>>, rows |-> <<>>]

InitMerge ==
    /\ df = [columns |-> PassengerColumns, rows |-> <<>>]
    /\ merged_rows = <<>>
    /\ origin = <<>>
    /\ best_rows = <<>>
    /\ result = NoTable
    /\ suspicious_records = <<>>
    /\ log_file = <<>>
    /\ first_run = <<>>
    /\ runs = 0

Init == call = Idle /\ NormIdle /\ InitMerge /\ LinkIdle /\ StageIdle

\* dfs.append(df) ... pd.concat(dfs, ignore_index=True): one more row
AppendRow ==
    /\ runs = 0
    /\ "TravelDoc" \in Range(df.columns)
    /\ Len(df.rows) < MaxRows
    /\ \E r \in RowChoices : df' = [df EXCEPT !.rows = Append(@, r)]
    /\ UNCHANGED <<merged_rows, origin, best_rows, result, suspicious_records, log_file,
                   first_run, runs, nameVars, normVars, linkVars, stageVars>>

\* a source table that has no TravelDoc column
DropTravelDoc ==
    /\ runs = 0
    /\ "TravelDoc" \in Range(df.columns)
    /\ Len(df.rows) <= 1
    /\ df' = without_TravelDoc(df)
    /\ UNCHANGED <<merged_rows, origin, best_rows, result, suspicious_records, log_file,
                   first_run, runs, nameVars, normVars, linkVars, stageVars>>

\* the effect of one call merge_duplicate_passengers(t, suspicious_log)
MergeCall(t) ==
    \E m \in {merge_duplicate_passengers(t)} :
       /\ df' = t
       /\ merged_rows' = m.merged_rows
       /\ origin' = m.origin
       /\ best_rows' = m.best_rows
       /\ result' = m.result
       /\ suspicious_records' = m.suspicious_records
       \* susp_df.to_csv(suspicious_log_path, ...) replaces the file
       /\ log_file' = IF m.suspicious_records # <<>>
                      THEN m.suspicious_records ELSE log_file
       /\ first_run' = IF runs = 0
                       THEN <<[input |-> t, result |-> m.result,
                               suspicious |-> m.suspicious_records]>>
                       ELSE first_run
       /\ runs' = runs + 1

\* merged = merge_duplicate_passengers(merged, suspicious_log_path=...)
RunMerge ==
    /\ runs = 0
    /\ MergeCall(df)
    /\ UNCHANGED <<nameVars, normVars, linkVars, stageVars>>

\* the merge applied to its own output
RunMergeAgain ==
    /\ runs >= 1
    /\ runs < MaxRuns
    /\ MergeCall(result)
    /\ UNCHANGED <<nameVars, normVars, linkVars, stageVars>>

Next ==
    \/ AppendRow
    \/ DropTravelDoc
    \/ RunMerge
    \/ RunMergeAgain

Spec == Init /\ [][Next]_vars

(***************************************************************************)
(* Claims about the merge.  They speak of the last call: df is the table   *)
(* it was given, result the table it returned, origin[k] the index label   *)
(* in df of the k-th returned row.                                         *)
(***************************************************************************)
HasTravelDoc == "TravelDoc" \in Range(df.columns)
Merged == runs >= 1 /\ HasTravelDoc

Labels == 1..Len(df.rows)
Docs == {df.rows[i].TravelDoc : i \in Labels}
Members(doc) == {i \in Labels : df.rows[i].TravelDoc = doc}

\* two or more records sharing one TravelDoc that is not empty or blank
IdentityGroups == {doc \in Docs : strip(doc) # <<>> /\ Cardinality(Members(doc)) >= 2}

\* the elected reference: the first record of the group with the highest
\* summed completeness
Reference(doc) ==
    df.rows[CHOOSE i \in Members(doc) :
               \A j \in Members(doc) :
                  \/ completeness_of(df.rows[j]) < completeness_of(df.rows[i])
                  \/ completeness_of(df.rows[j]) = completeness_of(df.rows[i]) /\ i <= j]

\* both names of record i are equivalent to those of the record ref
EquivalentTo(i, ref) ==
    /\ names_are_equivalent(df.rows[i].FirstName, ref.FirstName)
    /\ names_are_equivalent(df.rows[i].LastName, ref.LastName)

\* the returned row that came from the row with index label i
Returned(i) == result.rows[CHOOSE k \in 1..Len(origin) : origin[k] = i]
Collected(i) == merged_rows[CHOOSE k \in 1..Len(origin) : origin[k] = i]

SameNames(r, s) ==
    /\ r.FirstName = s.FirstName
    /\ r.SecondName = s.SecondName
    /\ r.LastName = s.LastName

\* the divergences reported for a TravelDoc
DivergencesFor(doc) ==
    {k \in 1..Len(suspicious_records) : suspicious_records[k].TravelDoc = strip(doc)}

\* text.split(sep)
RECURSIVE split(_, _)
split(text, sep) ==
    LET hits == {k \in 1..(Len(text) - Len(sep) + 1) :
                    SubSeq(text, k, k + Len(sep) - 1) = sep}
    IN IF hits = {} THEN <<text>>
       ELSE LET k == CHOOSE h \in hits : \A g \in hits : h <= g
            IN <<SubSeq(text, 1, k - 1)>>
                 \o split(SubSeq(text, k + Len(sep), Len(text)), sep)

\* the listing (a ", "-joined text) names exactly the values, each once
Lists(listing, values) ==
    /\ Range(split(listing, CommaSpace)) = values
    /\ Len(split(listing, CommaSpace)) = Cardinality(values)

\* C2: in an identity group in which every record's FirstName and LastName
\* are equivalent to the reference's, every record leaves the merge with the
\* reference's FirstName, SecondName and LastName, and no divergence is
\* reported for that TravelDoc.
C2_Unification ==
    Merged =>
        \A doc \in IdentityGroups : \A ref \in {Reference(doc)} :
            (\A i \in Members(doc) : EquivalentTo(i, ref)) =>
                /\ \A i \in Members(doc) : SameNames(Returned(i), ref)
                /\ DivergencesFor(doc) = {}

\* C2 witness: "A.", "Aleksandr", "Aleksandr" under P1 unified to "Aleksandr"
C2_Witness ==
    /\ runs = 1
    /\ df.rows = <<Passenger(P1, A_dot, I_dot, Ivanov, SU2),
                   Passenger(P1, Aleksandr, Empty, Ivanov, SU2),
                   Passenger(P1, Aleksandr, Empty, Ivanov, SU2)>>
    /\ \A k \in 1..3 : result.rows[k].FirstName = Aleksandr
                       /\ result.rows[k].SecondName = Empty
    /\ suspicious_records = <<>>

\* C3: in an identity group that holds a FirstName or LastName not equivalent
\* to the reference's, exactly one divergence is reported for the TravelDoc;
\* it lists every distinct observed FirstName and LastName and the record
\* count; every record whose names are not both equivalent to the reference
\* keeps its FirstName, SecondName and LastName.
C3_Divergence ==
    Merged =>
        \A doc \in IdentityGroups : \A ref \in {Reference(doc)} :
            (\E i \in Members(doc) :
                \/ ~names_are_equivalent(df.rows[i].FirstName, ref.FirstName)
                \/ ~names_are_equivalent(df.rows[i].LastName, ref.LastName)) =>
                /\ Cardinality(DivergencesFor(doc)) = 1
                /\ \A k \in DivergencesFor(doc) :
                      /\ Lists(suspicious_records[k].FirstNames,
                               {strip(df.rows[i].FirstName) : i \in Members(doc)})
                      /\ Lists(suspicious_records[k].LastNames,
                               {strip(df.rows[i].LastName) : i \in Members(doc)})
                      /\ suspicious_records[k].Count = Cardinality(Members(doc))
                /\ \A i \in Members(doc) :
                      ~EquivalentTo(i, ref) => SameNames(Returned(i), df.rows[i])

\* C3 witness: "Ivanov" and "Petrov" under P2, reported and left as they were
C3_Witness ==
    /\ runs = 1
    /\ df.rows = <<Passenger(P2, Aleksandr, Empty, Ivanov, SU1),
                   Passenger(P2, Aleksandr, Empty, Petrov, SU2)>>
    /\ Len(suspicious_records) = 1
    /\ suspicious_records[1].TravelDoc = P2
    /\ suspicious_records[1].LastNames = Ivanov \o CommaSpace \o Petrov
    /\ result.rows = df.rows

\* some two distinct observed values of the column are not equivalent
NotMutuallyEquivalent(doc, col) ==
    \E i, j \in Members(doc) :
        /\ strip(df.rows[i][col]) # strip(df.rows[j][col])
        /\ ~names_are_equivalent(df.rows[i][col], df.rows[j][col])

\* C4 as stated: a divergence is reported for an identity group if and only
\* if some two distinct observed FirstName values or some two distinct
\* observed LastName values are not equivalent; never more than one.
C4_PairwiseDivergence ==
    Merged =>
        \A doc \in IdentityGroups :
            /\ DivergencesFor(doc) # {} <=>
                  (NotMutuallyEquivalent(doc, "FirstName")
                      \/ NotMutuallyEquivalent(doc, "LastName"))
            /\ Cardinality(DivergencesFor(doc)) <= 1

\* C4 amended: a divergence is reported for an identity group if and only if
\* some observed FirstName is not equivalent to the reference's FirstName or
\* some observed LastName is not equivalent to the reference's LastName (a
\* name without letters is equivalent to no name, itself included); never
\* more than one.
C4_DivergenceAgainstReference ==
    Merged =>
        \A doc \in IdentityGroups : \A ref \in {Reference(doc)} :
            /\ DivergencesFor(doc) # {} <=>
                  (\E i \in Members(doc) :
                      \/ ~names_are_equivalent(df.rows[i].FirstName, ref.FirstName)
                      \/ ~names_are_equivalent(df.rows[i].LastName, ref.LastName))
            /\ Cardinality(DivergencesFor(doc)) <= 1

\* C4 witness: "Anna" and "Aleksandr" are not equivalent to each other but
\* both are to the reference's "A": nothing is reported
C4_Witness ==
    /\ runs = 1
    /\ HasTravelDoc
    /\ P1 \in IdentityGroups
    /\ NotMutuallyEquivalent(P1, "FirstName")
    /\ Reference(P1).FirstName = A_
    /\ suspicious_records = <<>>

\* C5: the merge applied to its own output changes no record and reports a
\* divergence for no TravelDoc the first application did not report.
C5_Idempotence ==
    runs >= 2 =>
        /\ result = df
        /\ \A k \in 1..Len(suspicious_records) :
              \E h \in 1..Len(first_run[1].suspicious) :
                 first_run[1].suspicious[h].TravelDoc = suspicious_records[k].TravelDoc

\* C5 witness: a second run over a first run that unified a record and
\* reported a divergence
C5_Witness ==
    /\ runs = 2
    /\ first_run[1].suspicious # <<>>
    /\ \E k \in 1..Len(first_run[1].input.rows) :
          first_run[1].input.rows[k] \notin Range(first_run[1].result.rows)

\* C6: the merge returns as many records as it receives, each input record
\* once; every field other than FirstName, SecondName and LastName is
\* unchanged; a record's names change only when its FirstName and LastName
\* are both equivalent to its group's reference.
NameColumns == {"FirstName", "SecondName", "LastName"}

C6_Frame ==
    runs >= 1 =>
        /\ Len(result.rows) = Len(df.rows)
        /\ Len(origin) = Len(df.rows)
        /\ \A i \in Labels : Cardinality({k \in 1..Len(origin) : origin[k] = i}) = 1
        /\ \A k \in 1..Len(result.rows) :
              /\ DOMAIN result.rows[k] = DOMAIN df.rows[origin[k]]
              /\ \A c \in DOMAIN result.rows[k] \ NameColumns :
                    result.rows[k][c] = df.rows[origin[k]][c]
              /\ ~SameNames(result.rows[k], df.rows[origin[k]]) =>
                    /\ HasTravelDoc
                    /\ df.rows[origin[k]].TravelDoc \in IdentityGroups
                    /\ EquivalentTo(origin[k], Reference(df.rows[origin[k]].TravelDoc))

\* C6 witness: a run that moved rows (groups come out in key order) and
\* rewrote a name
C6_Witness ==
    /\ runs = 1
    /\ \E k \in 1..Len(origin) : origin[k] # k
    /\ \E k \in 1..Len(result.rows) : ~SameNames(result.rows[k], df.rows[origin[k]])

\* C7: a record whose TravelDoc is empty or blank, and a record that is the
\* only one with its TravelDoc, leaves the merge with every field as it was,
\* is not scored, and no divergence is reported for its TravelDoc.
PassesThrough(i) ==
    \/ strip(df.rows[i].TravelDoc) = <<>>
    \/ Members(df.rows[i].TravelDoc) = {i}

C7_PassThrough ==
    Merged =>
        \A i \in Labels :
            PassesThrough(i) =>
                /\ Returned(i) = df.rows[i]
                /\ "completeness" \notin DOMAIN Collected(i)
                /\ DivergencesFor(df.rows[i].TravelDoc) = {}

\* C7 witness: an empty-TravelDoc record and a single-record TravelDoc next
\* to each other, and a blank one with a reported group
C7_Witness ==
    /\ runs = 1
    /\ HasTravelDoc
    /\ \E i, j \in Labels :
          /\ df.rows[i].TravelDoc \in {Empty, Blank}
          /\ df.rows[j].TravelDoc = P2
          /\ Members(P2) = {j}

\* C20: the audit log is append-only: across merge runs writing to the same
\* log, every row the log holds before a run is still in it after the run.
C20_AppendOnly ==
    [][\A k \in 1..Len(log_file) :
          \E j \in 1..Len(log_file') : log_file'[j] = log_file[k]]_vars

(***************************************************************************)
(* merge_csv.py: normalize.                                                *)
(* A raw table is [kind, columns, rows]: rows are sequences of cells       *)
(* aligned with columns, since column labels may repeat.  A column label   *)
(* is a sequence of pieces, each a word or the whitespace piece " ":       *)
(* "FirstName " is <<"FirstName", " ">>.  A cell is [t, v]: its Python     *)
(* type and the code points of its printed form.                           *)
(***************************************************************************)
SCHEMA ==
    <<"FirstName", "SecondName", "LastName", "PassengerSex", "PassengerBirthDate",
      "TravelDoc", "BookingCode", "TicketNumber", "Baggage",
      "DepartDate", "DepartTime", "FlightNumber", "CodeShare",
      "DepartCity", "ArrivalCity", "DepartCode", "ArrivalCode",
      "Airline", "Fare", "Seat", "TrvCls", "Meal", "BonusProgramm", "AgentInfo">>

Label(word) == <<word>>
SchemaLabels == [i \in 1..Len(SCHEMA) |-> Label(SCHEMA[i])]

Text(v) == [t |-> "str", v |-> v]
NaN == [t |-> "float", v |-> <<110, 97, 110>>]                   \* nan

\* pd.DataFrame(columns=SCHEMA)
EmptyCanonical == [kind |-> "DataFrame", columns |-> SchemaLabels, rows |-> <<>>]

\* str(c).strip() of a column label
RECURSIVE label_lstrip(_)
label_lstrip(c) == IF c # <<>> /\ Head(c) = " " THEN label_lstrip(Tail(c)) ELSE c
RECURSIVE label_rstrip(_)
label_rstrip(c) ==
    IF c # <<>> /\ c[Len(c)] = " " THEN label_rstrip(SubSeq(c, 1, Len(c) - 1)) ELSE c
label_strip(c) == label_rstrip(label_lstrip(c))

\* df.rename(columns=mapping) on the labels
renamed(columns, mapping) ==
    [i \in 1..Len(columns) |->
        IF columns[i] \in DOMAIN mapping THEN mapping[columns[i]] ELSE columns[i]]

\* df.columns = [str(c).strip() for c in df.columns]
stripped(columns) == [i \in 1..Len(columns) |-> label_strip(columns[i])]

\* fillna("") and astype(str) of one cell
filled(cell) == IF /\ cell.t \in {"float", "NoneType"}
                   /\ cell.v \in {<<110, 97, 110>>, <<78, 111, 110, 101>>}
                THEN Text(<<>>) ELSE cell
as_str(cell) == Text(cell.v)

\* df = df.fillna("").astype(str)
fillna_astype(rows) ==
    [r \in 1..Len(rows) |-> [i \in 1..Len(rows[r]) |-> as_str(filled(rows[r][i]))]]

\* for col in SCHEMA: if col not in df.columns: df[col] = ""
missing_columns(columns) ==
    LET Absent(c) == c \notin Range(columns)
    IN SelectSeq(SchemaLabels, Absent)

with_missing(columns, rows, missing) ==
    [columns |-> columns \o missing,
     rows |-> [r \in 1..Len(rows) |-> rows[r] \o [i \in 1..Len(missing) |-> Text(<<>>)]]]

\* the positions df[SCHEMA] takes: for each SCHEMA label in turn, every
\* column that carries it
RECURSIVE indexer(_, _)
indexer(columns, wanted) ==
    IF wanted = <<>> THEN <<>>
    ELSE LET Carries(i) == columns[i] = Head(wanted)
         IN SelectSeq([i \in 1..Len(columns) |-> i], Carries)
              \o indexer(columns, Tail(wanted))

\* df = df[SCHEMA]
take(t, idx) ==
    [kind |-> "DataFrame",
     columns |-> [k \in 1..Len(idx) |-> t.columns[idx[k]]],
     rows |-> [r \in 1..Len(t.rows) |-> [k \in 1..Len(idx) |-> t.rows[r][idx[k]]]]]

select_schema(t) == take(t, indexer(t.columns, SchemaLabels))

aligned(columns, rows) ==
    select_schema(with_missing(columns, rows, missing_columns(columns)))

\* a normalize that hands back what is not a table as it came
normalize_unguarded(x, mapping) ==
    IF x.kind # "DataFrame" THEN x
    ELSE aligned(stripped(renamed(x.columns,
                                  IF mapping.kind = "dict" THEN mapping.map ELSE <<>>)),
                 fillna_astype(x.rows))

\* normalize(df, mapping): no step of it raises on a DataFrame (columns that
\* share a label give a DataFrame for df[c], which has fillna, so bad_cols
\* stays empty)
normalize(x, mapping) ==
    IF x.kind # "DataFrame" THEN EmptyCanonical
    ELSE aligned(stripped(renamed(x.columns,
                                  IF mapping.kind = "dict" THEN mapping.map ELSE <<>>)),
                 fillna_astype(x.rows))

(***************************************************************************)
(* Inputs of normalize.                                                    *)
(***************************************************************************)
\* the "boarding" rename map of build_passenger_block
BoardingMapping ==
    Label("PassengerFirstName") :> Label("FirstName") @@
    Label("PassengerSecondName") :> Label("SecondName") @@
    Label("PassengerLastName") :> Label("LastName") @@
    Label("PassengerDocument") :> Label("TravelDoc") @@
    Label("PassengerSex") :> Label("PassengerSex") @@
    Label("PassengerBirthDate") :> Label("PassengerBirthDate") @@
    Label("FlightDate") :> Label("DepartDate") @@
    Label("FlightTime") :> Label("DepartTime") @@
    Label("Destination") :> Label("ArrivalCity")

MappingChoices ==
    { [kind |-> "None", map |-> <<>>],
      [kind |-> "dict", map |-> BoardingMapping],
      [kind |-> "list", map |-> <<>>] }

LabelChoices ==
    { Label("FirstName"), <<"FirstName", " ">>, Label("PassengerFirstName"),
      Label("TravelDoc"), Label("Extra") }

CellChoices == { Text(<<120>>), NaN, [t |-> "int", v |-> <<53>>] }     \* "x", nan, 5

\* column lists of at most MaxCols labels, and the tables of at most
\* MaxRawRows rows over a column list
ColumnChoices == UNION {[1..k -> LabelChoices] : k \in 0..MaxCols}

RawTables(cols) ==
    { [kind |-> "DataFrame", columns |-> cols, rows |-> rows] :
        rows \in UNION {[1..n -> [1..Len(cols) -> CellChoices]] : n \in 0..MaxRawRows} }

NotATable == [kind |-> "NoneType", columns |-> <<>>, rows |-> <<>>]

\* values that are no DataFrame: None, a list, a dict
NonTables ==
    { NotATable,
      [kind |-> "list", columns |-> <<>>, rows |-> <<>>],
      [kind |-> "dict", columns |-> <<>>, rows |-> <<>>] }

InitNormalize ==
    /\ call = Idle
    /\ MergeIdle
    /\ LinkIdle
    /\ StageIdle
    /\ ndf = NotATable
    /\ nmapping = [kind |-> "None", map |-> <<>>]
    /\ nresult = NotATable
    /\ npc = "idle"

\* a reader hands over what it read
ReaderReturns ==
    /\ npc = "idle"
    /\ \E cols \in ColumnChoices, mapping \in MappingChoices :
          \E x \in RawTables(cols) \cup NonTables :
             /\ ndf' = x
             /\ nmapping' = mapping
    /\ npc' = "input"
    /\ UNCHANGED <<nresult, nameVars, mergeVars, linkVars, stageVars>>

\* df = normalize(df, mappings.get(name))
CallNormalize ==
    /\ npc = "input"
    /\ nresult' = normalize(ndf, nmapping)
    /\ npc' = "returned"
    /\ UNCHANGED <<ndf, nmapping, nameVars, mergeVars, linkVars, stageVars>>

NextNormalize ==
    \/ ReaderReturns
    \/ CallNormalize

SpecNormalize == InitNormalize /\ [][NextNormalize]_vars

\* C1: whatever the column names of the table given to normalize (missing,
\* extra, or several that rename or trim to one canonical name), the result
\* has exactly the 24 canonical columns, each once, in canonical order, and
\* every cell is text.
C1_SchemaClosure ==
    npc = "returned" =>
        /\ nresult.columns = SchemaLabels
        /\ \A r \in 1..Len(nresult.rows) :
              /\ Len(nresult.rows[r]) = Len(SCHEMA)
              /\ \A i \in 1..Len(nresult.rows[r]) : nresult.rows[r][i].t = "str"

\* C22: malformed input is recovered locally: given something that is not
\* a table, normalize returns a table with the 24 canonical columns, in
\* canonical order, and zero rows.
C22_NotATable ==
    (npc = "returned" /\ ndf.kind # "DataFrame") =>
        /\ nresult.kind = "DataFrame"
        /\ Len(nresult.columns) = 24
        /\ \A i \in 1..Len(SCHEMA) : nresult.columns[i] = <<SCHEMA[i]>>
        /\ nresult.rows = <<>>

\* normalize has returned from a call with a list and a rename map
C22_Witness ==
    /\ npc = "returned"
    /\ ndf.kind = "list"
    /\ nmapping.kind = "dict"
    /\ nresult.kind = "DataFrame"

(***************************************************************************)
(* merge_csv.py: clean_key and normalize_date.                             *)
(* Further code points: 45 hyphen, 47 slash, 48..57 the digits 0-9.        *)
(* A missing value (float nan) is the cell NaNCell; no text holds -1.      *)
(***************************************************************************)
NaNCell == <<-1>>
isna(x) == x = NaNCell

Hyphen == 45
Period == 46
Slash == 47

IsDigit(c) == c \in 48..57
IsKeyChar(c) == c \in 65..90 \/ c \in 48..57
AllDigits(s) == \A i \in 1..Len(s) : IsDigit(s[i])

\* clean_key(x)
clean_key(x) ==
    IF isna(x) THEN <<>> ELSE Filter(str_upper(strip(x)), IsKeyChar)

\* int(s) of a digit string
RECURSIVE to_int(_)
to_int(s) == IF s = <<>> THEN 0 ELSE 10 * to_int(SubSeq(s, 1, Len(s) - 1)) + (s[Len(s)] - 48)

\* n printed in exactly `width` digits, zero-padded
RECURSIVE zero_padded(_, _)
zero_padded(n, width) ==
    IF width = 0 THEN <<>> ELSE Append(zero_padded(n \div 10, width - 1), 48 + (n % 10))

is_leap(y) == (y % 4 = 0 /\ y % 100 # 0) \/ y % 400 = 0
days_in_month(m, y) ==
    IF m = 2 THEN (IF is_leap(y) THEN 29 ELSE 28)
    ELSE IF m \in {4, 6, 9, 11} THEN 30 ELSE 31

\* the directives of strptime: %d and %m take one or two digits, %Y four
is_day(s) == Len(s) \in 1..2 /\ AllDigits(s) /\ to_int(s) \in 1..31
is_month(s) == Len(s) \in 1..2 /\ AllDigits(s) /\ to_int(s) \in 1..12
is_year(s) == Len(s) = 4 /\ AllDigits(s) /\ to_int(s) >= 1

\* datetime(y, m, d) exists
is_date(d, m, y) == is_day(d) /\ is_month(m) /\ is_year(y)
                       /\ to_int(d) <= days_in_month(to_int(m), to_int(y))

\* strftime("%Y-%m-%d")
strftime_iso(d, m, y) ==
    zero_padded(y, 4) \o <<Hyphen>> \o zero_padded(m, 2) \o <<Hyphen>> \o zero_padded(d, 2)

\* datetime.strptime(val, fmt) for the three formats tried; <<>> stands for
\* ValueError, otherwise <<d, m, y>> as digit strings
strptime(parts, day_first) ==
    IF Len(parts) # 3 THEN <<>>
    ELSE IF day_first
         THEN (IF is_date(parts[1], parts[2], parts[3])
               THEN <<parts[1], parts[2], parts[3]>> ELSE <<>>)
         ELSE (IF is_date(parts[3], parts[2], parts[1])
               THEN <<parts[3], parts[2], parts[1]>> ELSE <<>>)

reformatted(dmy) == strftime_iso(to_int(dmy[1]), to_int(dmy[2]), to_int(dmy[3]))

\* the loop over "%d.%m.%Y", "%Y-%m-%d", "%Y/%m/%d", then return val
try_formats(val, dotted, dashed, slashed) ==
    IF dotted # <<>> THEN reformatted(dotted)
    ELSE IF dashed # <<>> THEN reformatted(dashed)
    ELSE IF slashed # <<>> THEN reformatted(slashed)
    ELSE val

\* normalize_date after val = str(val).strip()
normalize_stripped(val) ==
    IF Len(val) = 8 /\ AllDigits(val)
    THEN SubSeq(val, 1, 4) \o <<Hyphen>> \o SubSeq(val, 5, 6) \o <<Hyphen>> \o SubSeq(val, 7, 8)
    ELSE try_formats(val,
                     strptime(split(val, <<Period>>), TRUE),
                     strptime(split(val, <<Hyphen>>), FALSE),
                     strptime(split(val, <<Slash>>), FALSE))

\* normalize_date(val)
normalize_date(val) ==
    IF val = <<>> \/ isna(val) THEN <<>> ELSE normalize_stripped(strip(val))

(***************************************************************************)
(* Inputs of normalize_date and clean_key: dates written in each format,   *)
(* dates that do not exist, and other values.                              *)
(***************************************************************************)
DayChoices == {1, 12, 29, 31}
MonthChoices == {1, 2, 12}
YearChoices == {2023, 2024}

\* a date written as DDMMYYYY, DD.MM.YYYY, YYYY-MM-DD, YYYY/MM/DD
Written(fmt, d, m, y) ==
    CASE fmt = "DDMMYYYY" -> zero_padded(d, 2) \o zero_padded(m, 2) \o zero_padded(y, 4)
      [] fmt = "DD.MM.YYYY" ->
            zero_padded(d, 2) \o <<Period>> \o zero_padded(m, 2) \o <<Period>> \o zero_padded(y, 4)
      [] fmt = "YYYY-MM-DD" ->
            zero_padded(y, 4) \o <<Hyphen>> \o zero_padded(m, 2) \o <<Hyphen>> \o zero_padded(d, 2)
      [] fmt = "YYYY/MM/DD" ->
            zero_padded(y, 4) \o <<Slash>> \o zero_padded(m, 2) \o <<Slash>> \o zero_padded(d, 2)

AcceptedFormats == {"DDMMYYYY", "DD.MM.YYYY", "YYYY-MM-DD", "YYYY/MM/DD"}

WrittenDates ==
    {Written(fmt, d, m, y) :
        fmt \in AcceptedFormats, d \in DayChoices, m \in MonthChoices, y \in YearChoices}

OtherValues ==
    { <<>>,                   \* ""
      <<32>>,                 \* " "
      <<97, 98, 99>>,          \* "abc"
      <<32, 50, 48, 50, 52, 45, 48, 50, 45, 48, 49, 32>>,   \* " 2024-02-01 "
      <<48, 49, 45, 48, 50, 45, 50, 48, 50, 52>>,   \* "01-02-2024"
      <<115, 117, 32, 49, 45, 97>>,       \* "su 1-a"
      <<84, 45, 49, 47, 1073>>,        \* "T-1/б"
      <<83, 85, 49>>,          \* "SU1"
      NaNCell }

DateInputs == WrittenDates \cup OtherValues

InitDates == call = Idle /\ NormIdle /\ MergeIdle /\ LinkIdle /\ StageIdle

CallNormalizeDate ==
    /\ call = Idle
    /\ \E val \in DateInputs :
         call' = [fn |-> "normalize_date", args |-> <<val>>, ret |-> normalize_date(val)]
    /\ UNCHANGED <<normVars, mergeVars, linkVars, stageVars>>

CallCleanKey ==
    /\ call = Idle
    /\ \E x \in DateInputs :
         call' = [fn |-> "clean_key", args |-> <<x>>, ret |-> clean_key(x)]
    /\ UNCHANGED <<normVars, mergeVars, linkVars, stageVars>>

NextDates ==
    \/ CallNormalizeDate
    \/ CallCleanKey
    \/ Return

SpecDates == InitDates /\ [][NextDates]_vars

\* the calendar dates a value denotes when read in one of the accepted formats
Denoted(val) ==
    {dmy \in (1..31) \X (1..12) \X YearChoices :
        /\ dmy[1] <= days_in_month(dmy[2], dmy[3])
        /\ \E fmt \in AcceptedFormats : val = Written(fmt, dmy[1], dmy[2], dmy[3])}

\* C15: normalize_date maps a value written (surrounding whitespace aside) in
\* an accepted format (8 digits read as DDMMYYYY, DD.MM.YYYY, YYYY-MM-DD,
\* YYYY/MM/DD) to the ISO string of the same calendar date, the empty value
\* to the empty string, and returns every other value unchanged (trimmed).
C15_DateNormalization ==
    call.fn = "normalize_date" =>
        \E val \in {IF isna(call.args[1]) THEN <<>> ELSE strip(call.args[1])} :
           /\ val = <<>> => call.ret = <<>>
           /\ \A dmy \in Denoted(val) : call.ret = strftime_iso(dmy[1], dmy[2], dmy[3])
           /\ Denoted(val) = {} => call.ret = val

(***************************************************************************)
(* merge_csv.py: attach_flights.                                           *)
(* A table row is a function from column names to cells; a cell is a text  *)
(* or NaNCell.  The columns kept are the join-key fields, one field both   *)
(* sides carry (Airline) and one only the flight side carries              *)
(* (ArrivalTime).  After the join a column label is <<name>> or, for a     *)
(* name both sides carry, <<name, "_x">> and <<name, "_y">>.               *)
(***************************************************************************)
MaxPassengers == 2   \* most rows of the passenger file
MaxFlights == 2      \* most rows of the flight sources together

PassengerFields ==
    {"TravelDoc", "TicketNumber", "BonusProgramm", "FlightNumber", "DepartDate", "Airline"}
FlightFields == PassengerFields \cup {"ArrivalTime"}

T_1 == <<116, 45, 49>>                  \* "t-1"
T1 == <<84, 49>>                          \* "T1"
Dash == <<45>>                             \* "-"
B1 == <<66, 49>>                          \* "B1"
Doc10 == <<49, 50, 51, 52, 53, 54, 55, 56, 57, 48>>       \* "1234567890"
Doc10_padded == <<32, 49, 50, 51, 52, 53, 54, 55, 56, 57, 48>>      \* " 1234567890"
Doc9 == <<49, 50, 51, 52, 53, 54, 55, 56, 57>>               \* "123456789"
su_1 == <<115, 117, 32, 49>>               \* "su 1"
Date_dotted == <<48, 49, 46, 48, 50, 46, 50, 48, 50, 52>>   \* "01.02.2024"
Date_iso == <<50, 48, 50, 52, 45, 48, 50, 45, 48, 49>>      \* "2024-02-01"
Date_slashed == <<50, 48, 50, 52, 47, 48, 50, 47, 48, 49>>  \* "2024/02/01"
AF == <<65, 70>>                          \* "AF"
SU == <<83, 85>>                          \* "SU"
Aeroflot == <<65, 101, 114, 111, 102, 108, 111, 116>>    \* "Aeroflot"
Air_France == <<65, 105, 114, 32, 70, 114, 97, 110, 99, 101>>  \* "Air France"
Arrival_10 == <<49, 48, 58, 48, 48>>       \* "10:00"
nan_text == <<110, 97, 110>>               \* "nan"

\* normalize_flight_table.py: two entries of AIRLINE_PREFIXES
AIRLINE_PREFIXES == SU :> Aeroflot @@ AF :> Air_France

\* get_airline_and_codeshare(flight_number)[0]
get_airline(flight_number) ==
    IF Len(flight_number) < 2 THEN <<>>
    ELSE IF str_upper(SubSeq(flight_number, 1, 2)) \in DOMAIN AIRLINE_PREFIXES
         THEN AIRLINE_PREFIXES[str_upper(SubSeq(flight_number, 1, 2))]
         ELSE <<>>

\* str.replace(" ", "")
without_spaces(s) == LET NotSpace(c) == c # 32 IN SelectSeq(s, NotSpace)

\* normalize_flight_table: the row built from one row of flights.csv, then
\* f["DepartDate"].apply(normalize_date)
csv_flight(r) ==
    [TravelDoc |-> <<>>, TicketNumber |-> <<>>, BonusProgramm |-> <<>>,
     FlightNumber |-> strip(r.FlightNumber),
     DepartDate |-> normalize_date(<<>>),
     Airline |-> strip(get_airline(r.FlightNumber)),
     ArrivalTime |-> strip(without_spaces(strip(r.ArrivalTime)))]

\* a JSON/YAML row that carries a travel document
json_flight_with_doc(r) ==
    [TravelDoc |-> Doc10, TicketNumber |-> r.TicketNumber,
     BonusProgramm |-> r.BonusProgramm, FlightNumber |-> r.FlightNumber,
     DepartDate |-> normalize_date(r.DepartDate),
     Airline |-> r.Airline,
     ArrivalTime |-> NaNCell]

\* a normalized JSON/YAML row after d["DepartDate"].apply(normalize_date),
\* as it stands in pd.concat([f, json_df, yaml_df]): ArrivalTime is missing.
\* The readers build every row with TravelDoc "" and give it no
\* TicketNumber and no Airline, which normalize adds as "".
json_flight(r) ==
    [TravelDoc |-> r.TravelDoc, TicketNumber |-> r.TicketNumber,
     BonusProgramm |-> r.BonusProgramm, FlightNumber |-> r.FlightNumber,
     DepartDate |-> normalize_date(r.DepartDate),
     Airline |-> r.Airline,
     ArrivalTime |-> NaNCell]

\* f_all = pd.concat([f, json_df, yaml_df], ignore_index=True); rows holds
\* the rows of flights.csv, then those of the JSON, then those of the YAML
flight_block(rows) ==
    [j \in 1..Len(rows) |->
        IF rows[j].src = "csv" THEN csv_flight(rows[j]) ELSE json_flight(rows[j])]

\* for c in ["TicketNumber", "FlightNumber", "DepartDate"]:
\*     if c in df.columns: df[c] = df[c].fillna("").apply(clean_key)
CleanedColumns == {"TicketNumber", "FlightNumber", "DepartDate"}

\* a cleaning that treats TravelDoc as one more key column
clean_row_with_doc(r) ==
    [c \in DOMAIN r |->
        IF c \in CleanedColumns \cup {"TravelDoc"} THEN clean_key(r[c]) ELSE r[c]]

clean_row(r) ==
    [c \in DOMAIN r |-> IF c \in CleanedColumns THEN clean_key(r[c]) ELSE r[c]]

clean_keys(rows) == [i \in 1..Len(rows) |-> clean_row(rows[i])]

\* "c" in p.columns and p[c].str.strip().ne("").any()
any_value(columns, rows, c) ==
    c \in columns /\ \E i \in 1..Len(rows) : strip(rows[i][c]) # <<>>

\* a choice of key_cols that looks at BonusProgramm before TicketNumber
select_key_cols_bonus_first(columns, rows) ==
    IF any_value(columns, rows, "TravelDoc")
    THEN <<"TravelDoc", "FlightNumber", "DepartDate">>
    ELSE IF any_value(columns, rows, "BonusProgramm")
    THEN <<"BonusProgramm", "FlightNumber", "DepartDate">>
    ELSE IF any_value(columns, rows, "TicketNumber")
    THEN <<"TicketNumber", "FlightNumber", "DepartDate">>
    ELSE <<"FlightNumber", "DepartDate">>

\* the choice of key_cols
select_key_cols(columns, rows) ==
    IF any_value(columns, rows, "TravelDoc")
    THEN <<"TravelDoc", "FlightNumber", "DepartDate">>
    ELSE IF any_value(columns, rows, "TicketNumber")
    THEN <<"TicketNumber", "FlightNumber", "DepartDate">>
    ELSE IF any_value(columns, rows, "BonusProgramm")
    THEN <<"BonusProgramm", "FlightNumber", "DepartDate">>
    ELSE <<"FlightNumber", "DepartDate">>

\* the rows of f_all whose key_cols values equal those of the passenger row
matching(prow, f_all, key_cols) ==
    LET Hit(j) == \A k \in 1..Len(key_cols) : f_all[j][key_cols[k]] = prow[key_cols[k]]
    IN SelectSeq([j \in 1..Len(f_all) |-> j], Hit)

\* a join that keeps one output row per passenger row: the first match only
fan_out_first(i, hits) ==
    IF hits = <<>> THEN <<<<i, 0>>>> ELSE <<<<i, hits[1]>>>>

\* the output rows of a left join for passenger row i: <<i, j>> for each
\* matching flight row j, or <<i, 0>> when there is none
fan_out(i, hits) ==
    IF hits = <<>> THEN <<<<i, 0>>>> ELSE [n \in 1..Len(hits) |-> <<i, hits[n]>>]

\* p.merge(f_all, on=key_cols, how="left"): the row pairs, in left order
RECURSIVE left_join(_, _, _, _)
left_join(p, f_all, key_cols, i) ==
    IF i > Len(p) THEN <<>>
    ELSE fan_out(i, matching(p[i], f_all, key_cols))
           \o left_join(p, f_all, key_cols, i + 1)

\* the column labels of the joined table
joined_labels(pcols, fcols, keys) ==
    {<<c>> : c \in (pcols \cup fcols) \ ((pcols \cap fcols) \ keys)}
      \cup {<<c, "_x">> : c \in (pcols \cap fcols) \ keys}
      \cup {<<c, "_y">> : c \in (pcols \cap fcols) \ keys}

\* the flight side of an output row: the matching row, or all missing
right_side(f_all, j) == IF j = 0 THEN [c \in FlightFields |-> NaNCell] ELSE f_all[j]

\* one row of the joined table
joined_row(prow, frow, pcols, keys) ==
    [l \in joined_labels(pcols, FlightFields, keys) |->
        IF Len(l) = 2 THEN (IF l[2] = "_x" THEN prow[l[1]] ELSE frow[l[1]])
        ELSE IF l[1] \in pcols THEN prow[l[1]]
        ELSE frow[l[1]]]

\* fillna("").astype(str) of one cell
fillna_str(cell) == IF isna(cell) THEN <<>> ELSE cell

\* a resolution that prefers the right (flight) side
where_nonempty_right(x, y) == IF y # <<>> THEN y ELSE x

\* merged[col].where(merged[col] != "", yvals)
where_nonempty(x, y) == IF x # <<>> THEN x ELSE y

\* merge_duplicate_columns, one column of one row
merged_column(row, col) ==
    IF <<col, "_x">> \in DOMAIN row /\ <<col, "_y">> \in DOMAIN row
    THEN where_nonempty(fillna_str(row[<<col, "_x">>]), fillna_str(row[<<col, "_y">>]))
    ELSE IF <<col, "_x">> \in DOMAIN row THEN row[<<col, "_x">>]
    ELSE IF <<col, "_y">> \in DOMAIN row THEN row[<<col, "_y">>]
    ELSE IF <<col>> \in DOMAIN row THEN row[<<col>>]
    ELSE <<>>

\* merge_duplicate_columns, one row: base = the labels without _x / _y
merge_duplicate_columns(row) ==
    [col \in {l[1] : l \in DOMAIN row} |-> merged_column(row, col)]

\* str(row.get(c, "")).strip()
get_str(row, c) ==
    IF c \notin DOMAIN row THEN <<>>
    ELSE IF isna(row[c]) THEN nan_text
    ELSE strip(row[c])

MinTicketDigits == 10

\* re.fullmatch(r"\d{10,}", doc) and not ticket
is_ticket_in_doc(doc, ticket) ==
    Len(doc) >= MinTicketDigits /\ AllDigits(doc) /\ ticket = <<>>

\* a repair that fills TicketNumber but leaves TravelDoc in place
fix_passport_ticket_conflict_keep_doc(row) ==
    IF is_ticket_in_doc(get_str(row, "TravelDoc"), get_str(row, "TicketNumber"))
    THEN [c \in DOMAIN row \cup {"TicketNumber", "TravelDoc"} |->
            IF c = "TicketNumber" THEN get_str(row, "TravelDoc")
            ELSE row[c]]
    ELSE row

\* fix_passport_ticket_conflict(row)
fix_passport_ticket_conflict(row) ==
    IF is_ticket_in_doc(get_str(row, "TravelDoc"), get_str(row, "TicketNumber"))
    THEN [c \in DOMAIN row \cup {"TicketNumber", "TravelDoc"} |->
            IF c = "TicketNumber" THEN get_str(row, "TravelDoc")
            ELSE IF c = "TravelDoc" THEN <<>>
            ELSE row[c]]
    ELSE row

\* merged["Airline"].notna().sum()
notna_sum(rows, c) == Cardinality({n \in 1..Len(rows) : ~isna(rows[n][c])})

\* to_csv: a missing value is written as the empty field
to_csv_row(row) == [c \in DOMAIN row |-> fillna_str(row[c])]

\* the locals of attach_flights when it returns
after_repair(p, f_all, key_cols, pairs, resolved, merged) ==
    [pc |-> "done", p |-> p, f_all |-> f_all, key_cols |-> key_cols, pairs |-> pairs,
     resolved |-> resolved, merged |-> merged,
     matched |-> notna_sum(merged, "Airline"),
     written |-> [n \in 1..Len(merged) |-> to_csv_row(merged[n])]]

after_resolution(p, f_all, key_cols, pairs, resolved) ==
    after_repair(p, f_all, key_cols, pairs, resolved,
                 [n \in 1..Len(resolved) |-> fix_passport_ticket_conflict(resolved[n])])

after_join(pcols, p, f_all, key_cols, pairs) ==
    after_resolution(p, f_all, key_cols, pairs,
        [n \in 1..Len(pairs) |->
            merge_duplicate_columns(
                joined_row(p[pairs[n][1]], right_side(f_all, pairs[n][2]), pcols,
                           Range(key_cols)))])

after_selection(pcols, p, f_all, key_cols) ==
    after_join(pcols, p, f_all, key_cols, left_join(p, f_all, key_cols, 1))

after_cleaning(pcols, p, f_all) ==
    after_selection(pcols, p, f_all, select_key_cols(pcols, p))

\* texts pd.read_csv takes for a missing value: "", "nan", "NaN", "None",
\* "NA", "NULL", "null", "N/A", "n/a" (of its default na_values)
NaValues ==
    { <<>>, nan_text, <<78, 97, 78>>, <<78, 111, 110, 101>>, <<78, 65>>,
      <<78, 85, 76, 76>>, <<110, 117, 108, 108>>, <<78, 47, 65>>, <<110, 47, 97>> }

\* pd.read_csv(input_path, sep=";", dtype=str): one row of the file, the
\* columns labelled as merge_duplicate_columns sees them
read_csv_row(row) ==
    [l \in {<<c>> : c \in DOMAIN row} |->
        IF row[l[1]] \in NaValues THEN NaNCell ELSE row[l[1]]]

\* c.replace("flights_", "").replace("sirena_", "")...: the column names of
\* the linked table hold none of the source prefixes
without_source_prefix(row) == row

\* clean_columns(input_path, output): the table it holds and the file it
\* writes
clean_columns(file) ==
    [pc |-> "done",
     df |-> [n \in 1..Len(file) |->
               merge_duplicate_columns(without_source_prefix(read_csv_row(file[n])))],
     written |-> [n \in 1..Len(file) |->
                    to_csv_row(merge_duplicate_columns(
                        without_source_prefix(read_csv_row(file[n]))))]]

\* attach_flights(passengers, flights, json_path, yaml_path, output)
attach_flights(ptable, frows) ==
    after_cleaning(ptable.columns, clean_keys(ptable.rows), clean_keys(flight_block(frows)))

(***************************************************************************)
(* Inputs of attach_flights: the passenger file as read (text cells), the  *)
(* rows of flights.csv and the normalized rows of the JSON/YAML sources.   *)
(***************************************************************************)
PassengerRow(doc, ticket, bonus, flight, date, airline) ==
    [TravelDoc |-> doc, TicketNumber |-> ticket, BonusProgramm |-> bonus,
     FlightNumber |-> flight, DepartDate |-> date, Airline |-> airline]

PassengerChoices ==
    { PassengerRow(P1, Empty, Empty, SU1, Date_dotted, Empty),
      PassengerRow(Empty, T_1, Empty, su_1, Date_iso, AF),
      PassengerRow(Empty, Dash, B1, SU1, Empty, Empty),
      PassengerRow(Doc10, Empty, Empty, SU1, Date_iso, Empty),
      PassengerRow(Doc10_padded, Empty, Empty, SU2, Empty, Empty),
      PassengerRow(Doc9, Empty, Empty, SU2, Empty, Empty),
      PassengerRow(Empty, Empty, Empty, SU1, Empty, AF) }

\* a row of flights.csv: its Flight and Arrival fields
CsvRow(flight, arrival) ==
    [src |-> "csv", TravelDoc |-> Empty, TicketNumber |-> Empty, BonusProgramm |-> Empty,
     FlightNumber |-> flight, DepartDate |-> Empty, Airline |-> Empty,
     ArrivalTime |-> arrival]

\* a row of normalize(read_json_file(json_path)): the reader fills
\* FlightNumber and DepartDate from the file and sets TravelDoc and
\* TicketNumber to ""; BonusProgramm and Airline are added empty by normalize
JsonRow(flight, date) ==
    [src |-> "json", TravelDoc |-> Empty, TicketNumber |-> Empty, BonusProgramm |-> Empty,
     FlightNumber |-> flight, DepartDate |-> date, Airline |-> Empty,
     ArrivalTime |-> Empty]

\* a row of normalize(read_yaml_file(yaml_path)): the reader fills DepartDate,
\* FlightNumber and BonusProgramm (each stripped) and sets TravelDoc to "";
\* TicketNumber and Airline are added empty by normalize
YamlRow(bonus, flight, date) ==
    [src |-> "yaml", TravelDoc |-> Empty, TicketNumber |-> Empty,
     BonusProgramm |-> strip(bonus),
     FlightNumber |-> strip(flight), DepartDate |-> strip(date), Airline |-> Empty,
     ArrivalTime |-> Empty]

FlightChoices ==
    { CsvRow(SU1, Arrival_10),
      JsonRow(SU1, Date_slashed),
      YamlRow(B1, SU1, Date_iso),
      YamlRow(B1, SU1, Empty) }

\* the place of a source in pd.concat([f, json_df, yaml_df])
concat_order(src) == IF src = "csv" THEN 1 ELSE IF src = "json" THEN 2 ELSE 3

InitLink ==
    /\ call = Idle
    /\ NormIdle
    /\ MergeIdle
    /\ StageIdle
    /\ passengers = [columns |-> PassengerFields, rows |-> <<>>]
    /\ flights = <<>>
    /\ attach = NotRun
    /\ final = NotRun

\* one more row in merged_passengers.csv
AppendPassenger ==
    /\ attach.pc = "idle"
    /\ "TravelDoc" \in passengers.columns
    /\ Len(passengers.rows) < MaxPassengers
    /\ \E r \in PassengerChoices :
          passengers' = [passengers EXCEPT !.rows = Append(@, r)]
    /\ UNCHANGED <<flights, attach, final, nameVars, normVars, mergeVars, stageVars>>

\* a passenger file that has no TravelDoc column
PassengersWithoutTravelDoc ==
    /\ attach.pc = "idle"
    /\ "TravelDoc" \in passengers.columns
    /\ Len(passengers.rows) <= 1
    /\ passengers' =
          [columns |-> passengers.columns \ {"TravelDoc"},
           rows |-> [i \in 1..Len(passengers.rows) |->
                       [c \in passengers.columns \ {"TravelDoc"} |-> passengers.rows[i][c]]]]
    /\ UNCHANGED <<flights, attach, final, nameVars, normVars, mergeVars, stageVars>>

\* one more row in flights.csv or in a JSON/YAML source
AppendFlight ==
    /\ attach.pc = "idle"
    /\ Len(flights) < MaxFlights
    /\ \E r \in FlightChoices :
          /\ flights # <<>> =>
                concat_order(flights[Len(flights)].src) <= concat_order(r.src)
          /\ flights' = Append(flights, r)
    /\ UNCHANGED <<passengers, attach, final, nameVars, normVars, mergeVars, stageVars>>

\* p2 = attach_flights(p1, paths["flights"], paths["json"], paths["yaml"], ...)
AttachFlights ==
    /\ attach.pc = "idle"
    /\ attach' = attach_flights(passengers, flights)
    /\ UNCHANGED <<passengers, flights, final, nameVars, normVars, mergeVars, stageVars>>

\* p3 = clean_columns(p2, base / "merged_all_sources.csv")
CleanColumns ==
    /\ attach.pc = "done"
    /\ final.pc = "idle"
    /\ final' = clean_columns(attach.written)
    /\ UNCHANGED <<passengers, flights, attach, nameVars, normVars, mergeVars, stageVars>>

NextLink ==
    \/ AppendPassenger
    \/ PassengersWithoutTravelDoc
    \/ AppendFlight
    \/ AttachFlights
    \/ CleanColumns

SpecLink == InitLink /\ [][NextLink]_vars

(***************************************************************************)
(* Claims about attach_flights.  passengers and flights are the inputs,    *)
(* attach holds what the call computed: p and f_all after key cleaning,    *)
(* key_cols, pairs (for each output row the passenger row and the flight   *)
(* row, 0 for none, it was joined from), resolved (after                   *)
(* merge_duplicate_columns), merged (after the repair) and written (the    *)
(* output file).                                                           *)
(***************************************************************************)
Linked == attach.pc = "done"
PassengerRows == 1..Len(passengers.rows)
FlightRows == 1..Len(flights)

TierOrder == <<"TravelDoc", "TicketNumber", "BonusProgramm">>

\* the tiers whose primary field is present and satisfies Populated in some row
Available(Populated(_, _)) ==
    {t \in 1..Len(TierOrder) :
        /\ TierOrder[t] \in passengers.columns
        /\ \E i \in PassengerRows : Populated(TierOrder[t], passengers.rows[i][TierOrder[t]])}

\* the key fields of the first available tier
TierOf(available) ==
    IF available = {} THEN <<"FlightNumber", "DepartDate">>
    ELSE <<TierOrder[CHOOSE t \in available : \A u \in available : t <= u],
           "FlightNumber", "DepartDate">>

NonEmptyAsSupplied(c, v) == v # <<>>
NonEmptyWhenCleaned(c, v) ==
    strip(IF c = "TicketNumber" THEN clean_key(v) ELSE v) # <<>>

\* C11 as claimed: the tier chosen is the first one in the order TravelDoc >
\* TicketNumber > BonusProgramm > (FlightNumber, DepartDate) whose primary
\* field is present and non-empty in some passenger row as supplied.
C11_TierAsSupplied ==
    Linked => attach.key_cols = TierOf(Available(NonEmptyAsSupplied))

\* C11 amended: the tier chosen is the first one in that order whose primary
\* field is present and, after key cleaning (for TicketNumber) and with
\* surrounding whitespace ignored, non-empty in some passenger row.
C11_TierSelection ==
    Linked => attach.key_cols = TierOf(Available(NonEmptyWhenCleaned))

\* TravelDoc entirely empty, TicketNumber and BonusProgramm populated: the
\* TicketNumber tier
C11_Witness ==
    /\ Linked
    /\ "TravelDoc" \in passengers.columns
    /\ \A i \in PassengerRows : passengers.rows[i].TravelDoc = Empty
    /\ \E i \in PassengerRows : passengers.rows[i].TicketNumber = T_1
    /\ \E i \in PassengerRows : passengers.rows[i].BonusProgramm = B1
    /\ attach.key_cols = <<"TicketNumber", "FlightNumber", "DepartDate">>

OutputRows == 1..Len(attach.written)
FromPassenger(i) == {n \in OutputRows : attach.pairs[n][1] = i}

\* the flight rows equal to passenger row i on every field of the chosen tier
Matches(i) ==
    {j \in 1..Len(attach.f_all) :
        \A k \in 1..Len(attach.key_cols) :
           attach.f_all[j][attach.key_cols[k]] = attach.p[i][attach.key_cols[k]]}

FlightOnly == FlightFields \ passengers.columns

\* C12: left join: a passenger row that matches k flight rows on the chosen
\* tier's fields appears max(1, k) times in the linked table, once per
\* matching flight row; with k = 0 every field only the flight side carries
\* is empty in its row.
C12_LeftJoin ==
    Linked =>
        /\ Len(attach.pairs) = Len(attach.written)
        /\ \A n \in OutputRows : attach.pairs[n][1] \in PassengerRows
        /\ \A i \in PassengerRows :
              /\ Cardinality(FromPassenger(i)) = Max(1, Cardinality(Matches(i)))
              /\ {attach.pairs[n][2] : n \in FromPassenger(i)}
                    = (IF Matches(i) = {} THEN {0} ELSE Matches(i))
              /\ \A n \in FromPassenger(i) :
                    /\ attach.written[n].FlightNumber = attach.p[i].FlightNumber
                    /\ attach.written[n].DepartDate = attach.p[i].DepartDate
                    /\ Matches(i) = {} =>
                          \A c \in FlightOnly : attach.written[n][c] = Empty

\* one passenger row matches two flight rows, another matches none
C12_Witness ==
    /\ Linked
    /\ \E i \in PassengerRows : Cardinality(Matches(i)) = 2
    /\ \E i \in PassengerRows : Matches(i) = {}

\* the primary field of the chosen tier, "" for the FlightNumber/DepartDate tier
PrimaryField == IF Len(attach.key_cols) = 3 THEN attach.key_cols[1] ELSE ""

\* C13: under the chosen tier a passenger row whose primary field is empty
\* matches no flight row, so its flight-only fields are empty in the linked
\* table.
C13_MixedAvailability ==
    (Linked /\ PrimaryField # "") =>
        \A i \in PassengerRows :
           strip(passengers.rows[i][PrimaryField]) = Empty =>
              \A n \in FromPassenger(i) :
                 /\ attach.pairs[n][2] = 0
                 /\ \A c \in FlightOnly : attach.written[n][c] = Empty

\* the calendar dates a DepartDate denotes in one of the accepted formats
DatesOf(v) == Denoted(strip(v))

\* C14: a passenger row and a flight row whose DepartDate values denote the
\* same calendar date, each in any accepted format, have equal DepartDate
\* join-key values when the join is performed.
C14_DateAlignment ==
    Linked =>
        \A i \in PassengerRows, j \in FlightRows :
           DatesOf(passengers.rows[i].DepartDate) \cap DatesOf(flights[j].DepartDate) # {}
              => attach.p[i].DepartDate = attach.f_all[j].DepartDate

IsUpperOrDigit(c) == c \in 65..90 \/ c \in 48..57

\* v upper-cased, every character other than A-Z and 0-9 removed
KeyForm(v) == Filter(str_upper(v), IsUpperOrDigit)

\* v holds only A-Z and 0-9 and cleaning it again changes nothing
IsCleaned(v) == (\A k \in 1..Len(v) : IsUpperOrDigit(v[k])) /\ clean_key(v) = v

\* C16: before the join every TicketNumber, FlightNumber and DepartDate
\* value of both sides is its upper-cased form with every character other
\* than A-Z and 0-9 removed (cleaning it again changes nothing), and every
\* TravelDoc value is exactly as it was.
C16_KeyCleaning ==
    Linked =>
        /\ \A i \in PassengerRows :
              /\ \A c \in CleanedColumns :
                    /\ IsCleaned(attach.p[i][c])
                    /\ attach.p[i][c] = KeyForm(passengers.rows[i][c])
              /\ "TravelDoc" \in passengers.columns =>
                    attach.p[i].TravelDoc = passengers.rows[i].TravelDoc
        /\ \A j \in FlightRows :
              /\ \A c \in CleanedColumns : IsCleaned(attach.f_all[j][c])
              /\ attach.f_all[j].FlightNumber = KeyForm(flights[j].FlightNumber)
              /\ attach.f_all[j].TicketNumber = KeyForm(flights[j].TicketNumber)
              /\ attach.f_all[j].TravelDoc = flights[j].TravelDoc

\* a ticket "t-1" cleaned to "T1", a TravelDoc with a leading space, and a
\* flight row with a dated key
C16_Witness ==
    /\ Linked
    /\ \E i \in PassengerRows :
          passengers.rows[i].TicketNumber = T_1 /\ attach.p[i].TicketNumber = T1
    /\ \E i \in PassengerRows :
          "TravelDoc" \in passengers.columns /\ attach.p[i].TravelDoc = Doc10_padded
    /\ \E j \in FlightRows : flights[j].DepartDate = Date_slashed

\* the field names both sides carry, other than the join keys
Colliding == (passengers.columns \cap FlightFields) \ Range(attach.key_cols)

\* the flight-side value of field c for output row n ("" when unmatched)
FlightSide(n, c) ==
    IF attach.pairs[n][2] = 0 THEN Empty ELSE attach.f_all[attach.pairs[n][2]][c]

PassengerSide(n, c) == attach.p[attach.pairs[n][1]][c]

LooksLikeTicket(doc) == Len(doc) >= MinTicketDigits /\ AllDigits(doc)

\* C18 as stated: a row whose TravelDoc consists only of digits (length >= 10)
\* and whose TicketNumber is empty gets TicketNumber = old TravelDoc and an
\* empty TravelDoc; in every other case both fields are unchanged.
C18_RepairAsSupplied ==
    Linked =>
        \A n \in OutputRows :
           IF LooksLikeTicket(attach.resolved[n].TravelDoc)
              /\ attach.resolved[n].TicketNumber = Empty
           THEN /\ attach.merged[n].TicketNumber = attach.resolved[n].TravelDoc
                /\ attach.merged[n].TravelDoc = Empty
           ELSE /\ attach.merged[n].TravelDoc = attach.resolved[n].TravelDoc
                /\ attach.merged[n].TicketNumber = attach.resolved[n].TicketNumber

\* C18: passport/ticket repair: a row whose TravelDoc, with surrounding
\* whitespace removed, consists only of digits (length >= 10) and whose
\* TicketNumber is empty gets TicketNumber = the trimmed TravelDoc and an empty
\* TravelDoc; in every other case TravelDoc and TicketNumber are unchanged, and
\* so are all other fields; no linked row keeps such a TravelDoc together with
\* an empty TicketNumber.
C18_PassportTicketRepair ==
    Linked =>
        \A n \in OutputRows :
           /\ IF LooksLikeTicket(strip(attach.resolved[n].TravelDoc))
                 /\ attach.resolved[n].TicketNumber = Empty
              THEN /\ attach.merged[n].TicketNumber = strip(attach.resolved[n].TravelDoc)
                   /\ attach.merged[n].TravelDoc = Empty
              ELSE /\ attach.merged[n].TravelDoc = attach.resolved[n].TravelDoc
                   /\ attach.merged[n].TicketNumber = attach.resolved[n].TicketNumber
           /\ \A c \in DOMAIN attach.resolved[n] \ {"TravelDoc", "TicketNumber"} :
                 attach.merged[n][c] = attach.resolved[n][c]
           /\ ~ (/\ LooksLikeTicket(strip(attach.merged[n].TravelDoc))
                 /\ attach.merged[n].TicketNumber = Empty)

\* one row is repaired and another, whose TravelDoc is one digit short, is
\* left as it was
C18_Witness ==
    /\ Linked
    /\ \E n \in OutputRows :
          /\ attach.resolved[n].TravelDoc = Doc10
          /\ attach.resolved[n].TicketNumber = Empty
          /\ attach.merged[n].TicketNumber = Doc10
          /\ attach.merged[n].TravelDoc = Empty
    /\ \E n \in OutputRows :
          /\ attach.resolved[n].TravelDoc = Doc9
          /\ attach.resolved[n].TicketNumber = Empty
          /\ attach.merged[n].TravelDoc = Doc9
          /\ attach.merged[n].TicketNumber = Empty

\* the rows of the written file that carry an Airline value
RowsWithAirline == {n \in OutputRows : attach.written[n].Airline # Empty}

\* C19: match-rate metric: the match count that the linker logs equals the
\* number of linked rows whose Airline field is non-empty.
C19_MatchCount ==
    Linked => attach.matched = Cardinality(RowsWithAirline)

TravelDocTier == Linked /\ attach.key_cols[1] = "TravelDoc"

\* output row n carries nothing from the flight side
NoFlightData(n) ==
    /\ attach.pairs[n][2] = 0
    /\ \A c \in FlightOnly : attach.written[n][c] = Empty
    /\ \A c \in Colliding : attach.resolved[n][c] = PassengerSide(n, c)

\* C28: every row of the flight block has an empty TravelDoc; so when the
\* TravelDoc tier is selected, a passenger row with a non-empty TravelDoc
\* matches no flight row and receives no flight-side data, and every
\* matched row comes from a passenger row with an empty TravelDoc.
C28_TravelDocTierMatchesNothing ==
    Linked =>
        /\ \A j \in 1..Len(attach.f_all) : attach.f_all[j].TravelDoc = Empty
        /\ TravelDocTier =>
              \A n \in OutputRows :
                 /\ attach.p[attach.pairs[n][1]].TravelDoc # Empty => NoFlightData(n)
                 /\ attach.pairs[n][2] # 0 => attach.p[attach.pairs[n][1]].TravelDoc = Empty

\* the TravelDoc tier with a documented passenger left unmatched although a
\* flight row has its FlightNumber and DepartDate, and an undocumented
\* passenger matched
C28_Witness ==
    /\ TravelDocTier
    /\ \E n \in OutputRows : \E j \in 1..Len(attach.f_all) :
          /\ attach.p[attach.pairs[n][1]].TravelDoc = Doc10
          /\ attach.f_all[j].FlightNumber = attach.p[attach.pairs[n][1]].FlightNumber
          /\ attach.f_all[j].DepartDate = attach.p[attach.pairs[n][1]].DepartDate
          /\ attach.pairs[n][2] = 0
    /\ \E n \in OutputRows :
          /\ attach.p[attach.pairs[n][1]].TravelDoc = Empty
          /\ attach.pairs[n][2] # 0

\* C27: DepartDate stays ISO: in the linked table every DepartDate value that
\* was given in an accepted date format is the ISO date string YYYY-MM-DD of
\* the date it denotes.
C27_DepartDateIso ==
    Linked =>
        \A n \in OutputRows :
           \A dmy \in DatesOf(passengers.rows[attach.pairs[n][1]].DepartDate) :
              attach.written[n].DepartDate = strftime_iso(dmy[1], dmy[2], dmy[3])

\* C29: for every input table that has a TravelDoc column, a table with
\* zero rows included, the merge returns a table with exactly the column
\* set of its input: no column lost, no helper column added.
C29_ColumnsKept ==
    Merged => Range(result.columns) = Range(df.columns)

\* C30: a record unified with its group's reference leaves the merge with
\* the reference's SecondName, whatever its own SecondName was and without
\* any equivalence test on SecondName, even when the reference's is empty.
C30_SecondNameOverwritten ==
    Merged =>
        \A doc \in IdentityGroups : \A ref \in {Reference(doc)} :
            \A i \in Members(doc) :
                EquivalentTo(i, ref) => Returned(i).SecondName = ref.SecondName

\* a record with SecondName "I." unified with a reference whose SecondName
\* is empty
C30_Witness ==
    /\ runs = 1
    /\ HasTravelDoc
    /\ \E doc \in IdentityGroups : \E i \in Members(doc) :
          /\ Reference(doc).SecondName = Empty
          /\ df.rows[i].SecondName = I_dot
          /\ EquivalentTo(i, Reference(doc))
          /\ Returned(i).SecondName = Empty

\* C26: most complete variant wins: no record leaves the merge with a
\* FirstName or a LastName whose completeness score is lower than the one
\* it had before the merge.
C26_NoLossOfCompleteness ==
    Merged =>
        \A i \in Labels :
            /\ name_completeness(Returned(i).FirstName)
                  >= name_completeness(df.rows[i].FirstName)
            /\ name_completeness(Returned(i).LastName)
                  >= name_completeness(df.rows[i].LastName)

\* the records of the group with the highest summed completeness
MostComplete(doc) ==
    {i \in Members(doc) :
        \A j \in Members(doc) : completeness_of(df.rows[j]) <= completeness_of(df.rows[i])}

\* the records elected as references of the group
Elected(doc) == {k \in 1..Len(best_rows) : best_rows[k] \in Members(doc)}

\* C25: election: exactly one record of every identity group is elected
\* reference, its summed completeness (FirstName + LastName + SecondName) is
\* maximal in the group, and among several maximal records it is the first
\* in input order; no record outside the identity groups is elected.
C25_Election ==
    Merged =>
        /\ \A doc \in IdentityGroups :
              /\ Cardinality(Elected(doc)) = 1
              /\ \A k \in Elected(doc) :
                    /\ best_rows[k] \in MostComplete(doc)
                    /\ \A j \in MostComplete(doc) : best_rows[k] <= j
        /\ Len(best_rows) = Cardinality(IdentityGroups)

\* two different records tie for the highest completeness and the first is
\* elected
C25_Witness ==
    /\ runs = 1
    /\ HasTravelDoc
    /\ \E doc \in IdentityGroups : \E i, j \in MostComplete(doc) :
          /\ i < j
          /\ df.rows[i] # df.rows[j]
          /\ \A k \in Elected(doc) : best_rows[k] = i

\* the columns of the downstream contract that the model carries
ContractColumns == {"TravelDoc", "Airline", "FlightNumber", "DepartDate", "BonusProgramm"}

IsTextCell(row, c) == c \in DOMAIN row /\ ~isna(row[c])

\* C21 (stage-2 part): when the passenger file has the canonical header,
\* the linked table holds each contract column and every cell of these
\* columns is a text value, never null.
C21_LinkedContract ==
    (Linked /\ "TravelDoc" \in passengers.columns) =>
        \A n \in OutputRows : \A c \in ContractColumns : IsTextCell(attach.merged[n], c)

\* C21: downstream contract: whenever stages 1 to 3 complete, the final
\* table and the stage-2 table hold each contract column and every cell of
\* these columns is a text value (possibly empty), never null.
C21_DownstreamContract ==
    (final.pc = "done" /\ "TravelDoc" \in passengers.columns) =>
        \A n \in OutputRows : \A c \in ContractColumns :
           /\ IsTextCell(attach.merged[n], c)
           /\ IsTextCell(final.df[n], c)

(***************************************************************************)
(* name_utils.py: split_full_name, and merge_csv.py:                       *)
(* recover_names_from_fullname, on raw tables.                             *)
(***************************************************************************)
\* the characters of the class [\s,.;]
IsNameSeparator(c) == IsWhitespace(c) \/ c \in {44, 46, 59}

\* [p for p in re.split(r"[\s,.;]+", val) if p]
RECURSIVE name_parts(_)
name_parts(val) ==
    IF val = <<>> THEN <<>>
    ELSE IF IsNameSeparator(Head(val)) THEN name_parts(Tail(val))
    ELSE LET stops == {k \in 1..Len(val) : IsNameSeparator(val[k])}
             end == IF stops = {} THEN Len(val) + 1
                    ELSE CHOOSE k \in stops : \A g \in stops : k <= g
         IN <<SubSeq(val, 1, end - 1)>> \o name_parts(SubSeq(val, end, Len(val)))

\* any("А" <= ch <= "я" for ch in val)
has_cyrillic(val) == \E i \in 1..Len(val) : 1040 <= val[i] /\ val[i] <= 1103

\* the endings (ov|ev|in|sky|ski|ova|eva|vna|ich)
SurnameEndings ==
    { <<111, 118>>, <<101, 118>>, <<105, 110>>, <<115, 107, 121>>, <<115, 107, 105>>,
      <<111, 118, 97>>, <<101, 118, 97>>, <<118, 110, 97>>, <<105, 99, 104>> }

endswith(s, e) == Len(e) <= Len(s) /\ SubSeq(s, Len(s) - Len(e) + 1, Len(s)) = e

\* re.search(r"(ov|ev|in|sky|ski|ova|eva|vna|ich)$", part.lower())
has_surname_ending(part) == \E e \in SurnameEndings : endswith(str_lower(part), e)

NameParts(first, second, last) ==
    [raises |-> FALSE, FirstName |-> first, SecondName |-> second, LastName |-> last]

\* one turn of the loop of split_full_name: the three names of one full
\* name, or the ValueError of unpacking no part at all
split_full_name(full) ==
    LET val == strip(full)
        parts == IF has_cyrillic(val) THEN name_parts(rus_to_lat(val))
                 ELSE name_parts(val)
    IN IF name_parts(val) = <<>> THEN NameParts(<<>>, <<>>, <<>>)
       ELSE IF parts = <<>> THEN [raises |-> TRUE]
       ELSE IF Len(parts) = 1 THEN NameParts(<<>>, <<>>, parts[1])
       ELSE IF Len(parts) = 2
            THEN IF has_surname_ending(parts[1])
                 THEN NameParts(parts[2], <<>>, parts[1])
                 ELSE NameParts(parts[1], <<>>, parts[2])
       ELSE NameParts(parts[2], parts[3], parts[1])

POSSIBLE_FULLNAME_COLS ==
    <<Label("FullName"), Label("PassengerName"), Label("PAX"), Label("Name")>>

\* the first position of a label among the columns (0: absent)
position(columns, label) ==
    LET at == {i \in 1..Len(columns) : columns[i] = label}
    IN IF at = {} THEN 0 ELSE CHOOSE i \in at : \A j \in at : i <= j

\* df.get(c, "").fillna(""): the text of a cell, "" for a column that is absent
cell_text(columns, row, label) ==
    IF position(columns, label) = 0 THEN <<>>
    ELSE filled(row[position(columns, label)]).v

\* recover_names_from_fullname(df): the rows whose FirstName is blank and
\* whose full name is not are split; parsed is indexed from 0 and is
\* assigned by index label, the k-th row of df takes the k-th parsed name
recover_names_from_fullname(x) ==
    LET Present(c) == c \in Range(x.columns)
        Absent(c) == c \notin Range(x.columns)
        present == SelectSeq(POSSIBLE_FULLNAME_COLS, Present)
        fn_col == Head(present)
        need_split(r) == /\ cell_text(x.columns, x.rows[r], Label("FirstName")) = <<>>
                         /\ strip(cell_text(x.columns, x.rows[r], fn_col)) # <<>>
        needed == SelectSeq([r \in 1..Len(x.rows) |-> r], need_split)
        parsed == [k \in 1..Len(needed) |->
                      split_full_name(cell_text(x.columns, x.rows[needed[k]], fn_col))]
        names == <<"FirstName", "SecondName", "LastName">>
        added == SelectSeq([k \in 1..3 |-> Label(names[k])], Absent)
        assigned(r, c) == IF r <= Len(parsed) THEN Text(parsed[r][c]) ELSE NaN
        cell(r, i, c) ==
            IF need_split(r) /\ filled(x.rows[r][i]).v = <<>>
            THEN assigned(r, c) ELSE x.rows[r][i]
        name_of(label) == CHOOSE c \in Range(names) : Label(c) = label
    IN IF present = <<>> THEN x
       ELSE IF ~\E r \in 1..Len(x.rows) : need_split(r) THEN x
       ELSE IF \E k \in 1..Len(parsed) : parsed[k].raises THEN x
       ELSE [kind |-> "DataFrame",
             columns |-> x.columns \o added,
             rows |-> [r \in 1..Len(x.rows) |->
                         [i \in 1..Len(x.columns) |->
                            IF x.columns[i] \in {Label(c) : c \in Range(names)}
                            THEN cell(r, i, name_of(x.columns[i]))
                            ELSE x.rows[r][i]]
                         \o [k \in 1..Len(added) |->
                               IF need_split(r) THEN assigned(r, name_of(added[k]))
                               ELSE Text(<<>>)]]]

(***************************************************************************)
(* excel_reader.py: read_excel_dir, and merge_csv.py:                      *)
(* build_passenger_block.  Stage 1 reads the four passenger sources in     *)
(* turn; the Excel source runs one worker per file and collects the        *)
(* results as the workers complete.                                        *)
(***************************************************************************)
MaxFiles == 2        \* most Excel files of the directory

\* readers.items(): the sources in the order they are read
readers == <<"boarding", "sirena", "excel", "xml">>

\* mappings.get(name)
mappings(name) ==
    IF name = "boarding" THEN [kind |-> "dict", map |-> BoardingMapping]
    ELSE [kind |-> "None", map |-> <<>>]

\* pd.DataFrame()
EmptyFrame == [kind |-> "DataFrame", columns |-> <<>>, rows |-> <<>>]

\* a reader call that raises instead of returning
Raised == [kind |-> "Exception", columns |-> <<>>, rows |-> <<>>]

Frame(columns, rows) ==
    [kind |-> "DataFrame",
     columns |-> [i \in 1..Len(columns) |-> Label(columns[i])],
     rows |-> [r \in 1..Len(rows) |-> [i \in 1..Len(rows[r]) |-> Text(rows[r][i])]]]

\* what the boarding, Sirena and XML readers may hand over
SourceReturns(name) ==
    IF name = "boarding"
    THEN { Raised, NotATable, EmptyFrame,
           Frame(<<"PassengerFirstName", "PassengerLastName", "PassengerDocument">>,
                 <<<<Aleksandr, Ivanov, P1>>>>),
           Frame(<<"PassengerFirstName", "FirstName", "PassengerDocument">>,
                 <<<<Aleksandr, A_dot, P1>>>>) }
    ELSE IF name = "sirena"
    THEN { Raised, EmptyFrame,
           Frame(<<"FirstName", "LastName", "TravelDoc">>,
                 <<<<A_dot, Ivanov, P1>>, <<Blank, Petrov, P2>>>>),
           Frame(<<"FirstName", "LastName", "TravelDoc">>, <<<<Blank, Petrov, P2>>>>) }
    ELSE { Raised, NotATable,
           Frame(<<"FirstName", "LastName", "TravelDoc">>, <<>>),
           Frame(<<"FirstName", "LastName", "TravelDoc">>, <<<<Anna, Ivanov, P1>>>>) }

ExcelColumns == <<"FlightNumber", "FullName">>

\* what process_single_excel may return for one file: pd.DataFrame() after
\* an error, or the records of its sheets
WorkerResults ==
    { EmptyFrame,
      Frame(ExcelColumns, <<<<SU1, Ivanov \o Blank \o Aleksandr>>>>),
      Frame(ExcelColumns, <<<<SU2, Petrov>>>>) }

\* the .xlsx files of the directory, each with what its worker will return
ExcelDirs(n) == [1..n -> WorkerResults]

\* df.empty
is_empty(x) == x.rows = <<>> \/ x.columns = <<>>

\* a loop over the futures that ends with the first result
first_completed(futs) == \E f \in DOMAIN futs : futs[f].state = "collected"

\* for fut in as_completed(futures): ... ends once every future was yielded
as_completed_exhausted(futs) == \A f \in DOMAIN futs : futs[f].state = "collected"

\* pd.concat(all_data, ignore_index=True), then astype(str) of every column
RECURSIVE concat_rows(_)
concat_rows(frames) ==
    IF frames = <<>> THEN <<>> ELSE Head(frames).rows \o concat_rows(Tail(frames))

read_excel_dir_return(data) ==
    IF data = <<>> THEN EmptyFrame
    ELSE [kind |-> "DataFrame",
          columns |-> data[1].columns,
          rows |-> [r \in 1..Len(concat_rows(data)) |->
                      [i \in 1..Len(concat_rows(data)[r]) |->
                         as_str(concat_rows(data)[r][i])]]]

\* df[df["FirstName"].astype(str).str.strip() != ""]; with two FirstName
\* columns df["FirstName"] is a DataFrame and .str raises AttributeError
first_name_filter(t) ==
    LET at == {i \in 1..Len(t.columns) : t.columns[i] = Label("FirstName")}
        Named(row) == strip(row[position(t.columns, Label("FirstName"))].v) # <<>>
    IN IF at = {} THEN [raises |-> FALSE, df |-> t]
       ELSE IF Cardinality(at) > 1 THEN [raises |-> TRUE, df |-> t]
       ELSE [raises |-> FALSE, df |-> [t EXCEPT !.rows = SelectSeq(t.rows, Named)]]

\* the body of the loop for one source, given what its reader did: the
\* table appended to dfs, or the reason why the source is skipped
process_source(name, x) ==
    IF x.kind = "Exception" THEN [appended |-> FALSE, why |-> "exception"]
    ELSE IF x.kind # "DataFrame" THEN [appended |-> FALSE, why |-> "not a DataFrame"]
    ELSE IF is_empty(x) THEN [appended |-> FALSE, why |-> "empty"]
    ELSE LET has_fullname == Label("FullName") \in Range(x.columns)
             has_names == \E c \in {"FirstName", "LastName"} : Label(c) \in Range(x.columns)
             recovered == IF has_fullname /\ ~has_names
                          THEN recover_names_from_fullname(x) ELSE x
             outcomes ==
                 { IF kept.raises THEN [appended |-> FALSE, why |-> "exception"]
                   ELSE [appended |-> TRUE, why |-> "", df |-> kept.df] :
                   kept \in { first_name_filter(n) :
                              n \in { normalize(r, mappings(name)) : r \in {recovered} } } }
         IN CHOOSE o \in outcomes : TRUE

\* a loop that an exception in one source ends
after_source_abort(s, name, x) ==
    LET after(o) ==
            [s EXCEPT !.pc = "loop",
                      !.i = IF o.why = "exception" THEN Len(readers) + 1 ELSE @ + 1,
                      !.read = Append(@, [name |-> name, returned |-> x,
                                          appended |-> o.appended, why |-> o.why]),
                      !.dfs = IF o.appended THEN Append(@, o.df) ELSE @]
    IN CHOOSE s2 \in {after(o) : o \in {process_source(name, x)}} : TRUE

\* the locals of build_passenger_block after the turn of the loop for one
\* source
after_source(s, name, x) ==
    LET after(o) ==
            [s EXCEPT !.pc = "loop",
                      !.i = @ + 1,
                      !.read = Append(@, [name |-> name, returned |-> x,
                                          appended |-> o.appended, why |-> o.why]),
                      !.dfs = IF o.appended THEN Append(@, o.df) ELSE @]
    IN CHOOSE s2 \in {after(o) : o \in {process_source(name, x)}} : TRUE

\* the rows of a table of canonical columns as records
as_records(t) ==
    [columns |-> [i \in 1..Len(t.columns) |-> t.columns[i][1]],
     rows |-> [r \in 1..Len(t.rows) |->
                 [c \in Range(SCHEMA) |-> t.rows[r][position(t.columns, Label(c))].v]]]

\* pd.concat(dfs, ignore_index=True)
concat(frames) ==
    CHOOSE t \in {as_records(c) : c \in {[kind |-> "DataFrame",
                                           columns |-> frames[1].columns,
                                           rows |-> concat_rows(frames)]}} : TRUE

NotWritten == [written |-> FALSE, rows |-> <<>>]

InitStage1 ==
    /\ call = Idle
    /\ NormIdle
    /\ MergeIdle
    /\ LinkIdle
    /\ stage1 = [pc |-> "loop", i |-> 1, dfs |-> <<>>, read |-> <<>>,
                 output |-> NotWritten]
    /\ futures = <<>>
    /\ all_data = <<>>

\* df = reader(paths[name]) and the rest of the loop body, for the sources
\* that are read in the calling process
ReadSource ==
    /\ stage1.pc = "loop"
    /\ stage1.i <= Len(readers)
    /\ readers[stage1.i] # "excel"
    /\ \E x \in SourceReturns(readers[stage1.i]) :
          stage1' = after_source(stage1, readers[stage1.i], x)
    /\ UNCHANGED <<futures, all_data, nameVars, normVars, mergeVars, linkVars>>

\* read_excel_dir: os.listdir raises; or there is no .xlsx file; or one
\* worker per file is submitted
SubmitWorkers ==
    /\ stage1.pc = "loop"
    /\ stage1.i <= Len(readers)
    /\ readers[stage1.i] = "excel"
    /\ \/ /\ \E x \in {Raised, EmptyFrame} : stage1' = after_source(stage1, "excel", x)
          /\ UNCHANGED <<futures, all_data>>
       \/ /\ \E n \in 1..MaxFiles : \E files \in ExcelDirs(n) :
                futures' = [f \in 1..n |-> [state |-> "running", result |-> files[f]]]
          /\ all_data' = <<>>
          /\ stage1' = [stage1 EXCEPT !.pc = "excel"]
    /\ UNCHANGED <<nameVars, normVars, mergeVars, linkVars>>

\* a worker process finishes process_single_excel for its file
WorkerDone(f) ==
    /\ stage1.pc = "excel"
    /\ futures[f].state = "running"
    /\ futures' = [futures EXCEPT ![f].state = "finished"]
    /\ UNCHANGED <<stage1, all_data, nameVars, normVars, mergeVars, linkVars>>

\* as_completed yields a finished future: df = fut.result(), appended when
\* it is a non-empty DataFrame
Collect(f) ==
    /\ stage1.pc = "excel"
    /\ futures[f].state = "finished"
    /\ futures' = [futures EXCEPT ![f].state = "collected"]
    /\ all_data' = IF futures[f].result.kind = "DataFrame" /\ ~is_empty(futures[f].result)
                   THEN Append(all_data, futures[f].result)
                   ELSE all_data
    /\ UNCHANGED <<stage1, nameVars, normVars, mergeVars, linkVars>>

\* a worker process dies: fut.result() raises BrokenProcessPool for the
\* futures still pending, read_excel_dir is left by the exception and the
\* loop body of stage 1 absorbs it
PoolBreaks ==
    /\ stage1.pc = "excel"
    /\ \E f \in DOMAIN futures : futures[f].state = "running"
    /\ futures' = [f \in DOMAIN futures |->
                     IF futures[f].state = "running"
                     THEN [futures[f] EXCEPT !.state = "broken"] ELSE futures[f]]
    /\ stage1' = after_source(stage1, "excel", Raised)
    /\ UNCHANGED <<all_data, nameVars, normVars, mergeVars, linkVars>>

\* read_excel_dir returns and the loop body goes on with its table
ExcelReturn ==
    /\ stage1.pc = "excel"
    /\ as_completed_exhausted(futures)
    /\ \E x \in {read_excel_dir_return(all_data)} :
          stage1' = after_source(stage1, "excel", x)
    /\ UNCHANGED <<futures, all_data, nameVars, normVars, mergeVars, linkVars>>

\* after the loop: nothing to merge, or concat, merge and to_csv
FinishStage1 ==
    /\ stage1.pc = "loop"
    /\ stage1.i > Len(readers)
    /\ IF stage1.dfs = <<>>
       THEN /\ stage1' = [stage1 EXCEPT !.pc = "stopped"]
            /\ UNCHANGED mergeVars
       ELSE /\ \E merged \in {concat(stage1.dfs)} : MergeCall(merged)
            /\ stage1' = [stage1 EXCEPT !.pc = "done",
                                        !.output = [written |-> TRUE,
                                                    rows |-> result'.rows]]
    /\ UNCHANGED <<futures, all_data, nameVars, normVars, linkVars>>

NextStage1 ==
    \/ ReadSource
    \/ SubmitWorkers
    \/ \E f \in DOMAIN futures : WorkerDone(f)
    \/ \E f \in DOMAIN futures : Collect(f)
    \/ PoolBreaks
    \/ ExcelReturn
    \/ FinishStage1

SpecStage1 == InitStage1 /\ [][NextStage1]_vars

Stage1Over == stage1.pc \in {"done", "stopped"}
Sources == 1..Len(stage1.read)
Absorbed(k) == stage1.read[k].why = "exception"

\* the records of the k-th source as they stand after name recovery and
\* normalization, and those among them that stage 1 keeps
RecordsOf(k) ==
    LET x == stage1.read[k].returned
        has_fullname == Label("FullName") \in Range(x.columns)
        has_names == \E c \in {"FirstName", "LastName"} : Label(c) \in Range(x.columns)
        recovered == IF has_fullname /\ ~has_names
                     THEN recover_names_from_fullname(x) ELSE x
    IN CHOOSE rows \in
          { as_records(n).rows :
              n \in { normalize(r, mappings(stage1.read[k].name)) : r \in {recovered} } } :
          TRUE
HasFirstName(r) == strip(r.FirstName) # <<>>
Contribution(k) ==
    IF stage1.read[k].appended THEN SelectSeq(RecordsOf(k), HasFirstName) ELSE <<>>
RECURSIVE Contributions(_)
Contributions(k) == IF k = 0 THEN <<>> ELSE Contributions(k - 1) \o Contribution(k)

ExcelRead == {k \in Sources : stage1.read[k].name = "excel" /\ futures # <<>>}
Occurrences(seq, x) == Cardinality({k \in 1..Len(seq) : seq[k] = x})
RECURSIVE Produced(_, _)
\* how many times the workers of the first n files produced a record
Produced(n, row) ==
    IF n = 0 THEN 0
    ELSE Produced(n - 1, row) + Occurrences(futures[n].result.rows, row)

\* C24: read barrier: no Excel worker is still running once read_excel_dir
\* is left, hence when the merge starts; when read_excel_dir returns, every
\* future was collected, every non-empty worker result was taken exactly
\* once and no empty one, and the returned table holds each record as many
\* times as the workers produced it, whatever the order of completion.
C24_ReadBarrier ==
    /\ (runs >= 1 \/ ExcelRead # {}) =>
          \A f \in DOMAIN futures : futures[f].state # "running"
    /\ \A k \in ExcelRead : stage1.read[k].returned.kind = "DataFrame" =>
          /\ \A f \in DOMAIN futures : futures[f].state = "collected"
          /\ \A x \in WorkerResults :
                Occurrences(all_data, x) =
                   IF is_empty(x) THEN 0
                   ELSE Cardinality({f \in DOMAIN futures : futures[f].result = x})
          /\ \A x \in WorkerResults : \A row \in Range(x.rows) :
                Occurrences(stage1.read[k].returned.rows, row)
                   = Produced(Len(futures), row)

\* two workers with different records completed in the reverse order of
\* submission, and the merge has run on their records
C24_Witness ==
    /\ stage1.pc = "done"
    /\ Len(futures) >= 2
    /\ Len(all_data) >= 2
    /\ all_data[1] = futures[2].result
    /\ all_data[2] = futures[1].result
    /\ all_data[1] # all_data[2]
    /\ \E k \in ExcelRead : stage1.read[k].appended

====
